---- MODULE Spec2Model ----
(***************************************************************************)
(* Per-email AI workspace cache and generation lifecycle of the Outlook    *)
(* task pane (client/src/ai/AiPanel.tsx, client/src/ui/App.tsx).           *)
(*                                                                         *)
(* The browser is single threaded: one action below is one event-loop task *)
(* (a click handler, a timer callback, the continuation of an awaited      *)
(* promise) together with the React render and the effects it triggers.    *)
(***************************************************************************)
EXTENDS Integers, Sequences, FiniteSets, TLC

(***************************************************************************)
(* Bounds of the model                                                     *)
(***************************************************************************)
\* number of generator calls that may be in flight together
MaxRuns == 2
\* number of clock advances in one behaviour
MaxTicks == 1
\* number of generation-history entries appended in one behaviour
MaxAppends == 1
\* highest result tab the user selects (tabs are numbered from 0)
MaxTab == 1
\* the same bound where the auto-summary runs beside the user's actions
MaxAutoAppends == 1
\* tab changes (leaving the AI tab, coming back to it) while the auto-summary is explored
MaxTabSwitches == 2
\* records written, clock advances and tab changes while the store functions
\* are explored on their own
MaxStoreWrites == 2
MaxStoreTicks == 2
MaxStoreTabs == 1
\* the same where getItem / setItem fail
MaxFaultWrites == 1
MaxFaultTicks == 1
MaxFaultTabs == 1

(***************************************************************************)
(* Program constants                                                       *)
(***************************************************************************)
AI_HISTORY_KEEP_MS == 5 * 24 * 60 * 60 * 1000
WORKSPACE_KEEP_MS == 5 * 24 * 60 * 60 * 1000
SUMMARY_KEEP_MS == 5 * 24 * 60 * 60 * 1000
\* saveAiHistory: pruned.slice(-300)
HistoryCap == 300
\* makeEmptySlots: Array.from({ length: 3 })
NumSlots == 3
\* auto-summary throttle: now - st.lastAttempt < 30000
AutoThrottleMs == 30000

(***************************************************************************)
(* Host metadata and makeEmailKey (AiPanel.tsx 117-147, App.tsx 63-89).    *)
(* A metadata text is a sequence of characters, so that trimming, white-   *)
(* space collapsing and lower-casing are computed; a field the host left   *)
(* out reads undefined, which String(s || "") turns into the empty text,   *)
(* and is written <<>>.  A key, like every other text of the model, is a   *)
(* string.                                                                 *)
(***************************************************************************)
White == {" ", "\t"}

\* the text as a string
RECURSIVE Text(_)
Text(s) == IF s = <<>> THEN "" ELSE Head(s) \o Text(Tail(s))

RECURSIVE TrimStart(_)
TrimStart(s) == IF s # <<>> /\ Head(s) \in White THEN TrimStart(Tail(s)) ELSE s

RECURSIVE TrimEnd(_)
TrimEnd(s) ==
  IF s # <<>> /\ s[Len(s)] \in White THEN TrimEnd(SubSeq(s, 1, Len(s) - 1)) ELSE s

\* normStr: String(s || "").trim()
normStr(s) == TrimEnd(TrimStart(s))

\* the letters, in the order of their code units
LowerLetters ==
  <<"a", "b", "c", "d", "e", "f", "g", "h", "i", "j", "k", "l", "m",
    "n", "o", "p", "q", "r", "s", "t", "u", "v", "w", "x", "y", "z">>
UpperLetters ==
  <<"A", "B", "C", "D", "E", "F", "G", "H", "I", "J", "K", "L", "M",
    "N", "O", "P", "Q", "R", "S", "T", "U", "V", "W", "X", "Y", "Z">>
Digits == <<"0", "1", "2", "3", "4", "5", "6", "7", "8", "9">>

\* the position of c in the sequence s, 0 when c is not in it
IndexIn(s, c) == IF \E i \in 1..Len(s) : s[i] = c THEN CHOOSE i \in 1..Len(s) : s[i] = c ELSE 0

\* String.prototype.toLowerCase on one character
LowerChar(c) == IF IndexIn(UpperLetters, c) # 0 THEN LowerLetters[IndexIn(UpperLetters, c)] ELSE c

toLowerCase(s) == [i \in 1..Len(s) |-> LowerChar(s[i])]

\* mutant: normEmail without .toLowerCase()
normEmailCased(s) == normStr(s)

\* normEmail: normStr(s).toLowerCase()
normEmail(s) == toLowerCase(normStr(s))

\* .replace(/\s+/g, " "): every run of whitespace becomes one space
RECURSIVE CollapseWhite(_)
CollapseWhite(s) ==
  IF s = <<>> THEN <<>>
  ELSE IF Head(s) \in White THEN <<" ">> \o CollapseWhite(TrimStart(s))
  ELSE <<Head(s)>> \o CollapseWhite(Tail(s))

\* String.prototype.charCodeAt on the characters of the model
charCodeAt(c) ==
  IF IndexIn(LowerLetters, c) # 0 THEN 96 + IndexIn(LowerLetters, c)
  ELSE IF IndexIn(UpperLetters, c) # 0 THEN 64 + IndexIn(UpperLetters, c)
  ELSE IF IndexIn(Digits, c) # 0 THEN 47 + IndexIn(Digits, c)
  ELSE CASE c = "\t" -> 9 [] c = " " -> 32 [] c = "." -> 46 [] c = ":" -> 58
         [] c = "<" -> 60 [] c = ">" -> 62 [] c = "@" -> 64 [] c = "|" -> 124

\* a ^ b on naturals
RECURSIVE Xor(_, _)
Xor(a, b) ==
  IF a = 0 THEN b
  ELSE IF b = 0 THEN a
  ELSE (((a % 2) + (b % 2)) % 2) + 2 * Xor(a \div 2, b \div 2)

\* fnv1a keeps h as a 32-bit word: ^= and << give int32, >>> 0 the uint32.
\* The word is held as two 16-bit halves.  let h = 2166136261 is 0x811C9DC5.
FnvOffset == [hi |-> 33052, lo |-> 40389]

\* mutant: FNV-1, which multiplies before it takes the exclusive or
FnvStepMultiplyFirst(h, c) ==
  LET p == h.lo * 403
      lo == p % 65536
      hi == ((h.hi * 403) + (p \div 65536) + ((h.lo % 256) * 256)) % 65536
  IN [lo |-> Xor(lo, c), hi |-> hi]

\* h ^= c; h += (h << 1) + (h << 4) + (h << 7) + (h << 8) + (h << 24):
\* modulo 2^32 the four low shifts add h * 402 and h << 24 adds the low byte of h
\* to the top byte
FnvStep(h, c) ==
  LET lo == Xor(h.lo, c)
      p == lo * 403
  IN [lo |-> p % 65536,
      hi |-> ((h.hi * 403) + (p \div 65536) + ((lo % 256) * 256)) % 65536]

RECURSIVE FnvFold(_, _)
\* the word h is computed (its halves are never negative) before the next
\* character is folded in
FnvFold(h, s) ==
  IF s = <<>> \/ h.lo < 0 THEN h
  ELSE FnvFold(FnvStep(h, charCodeAt(Head(s))), Tail(s))

HexDigits == <<"0", "1", "2", "3", "4", "5", "6", "7", "8", "9", "a", "b", "c", "d", "e", "f">>

\* Number.prototype.toString(16)
RECURSIVE Hex(_)
Hex(n) == IF n < 16 THEN HexDigits[n + 1] ELSE Hex(n \div 16) \o HexDigits[(n % 16) + 1]

\* four hexadecimal digits, with leading zeros
Hex4(n) ==
  HexDigits[(n \div 4096) + 1] \o HexDigits[((n \div 256) % 16) + 1]
    \o HexDigits[((n \div 16) % 16) + 1] \o HexDigits[(n % 16) + 1]

\* fnv1a: (h >>> 0).toString(16)
fnv1a(str) ==
  LET h == FnvFold(FnvOffset, str)
  IN IF h.hi = 0 THEN Hex(h.lo) ELSE Hex(h.hi) \o Hex4(h.lo)

\* a || b on texts
OrElse(a, b) == IF a # <<>> THEN a ELSE b

\* [subject, from, to].join("|")
JoinBar(subject, from, to) == subject \o <<"|">> \o from \o <<"|">> \o to

\* makeEmailKey, lines 143-146: the key made from the visible metadata
FallbackKey(ctx) ==
  LET subject == toLowerCase(CollapseWhite(normStr(ctx.subject)))
      from == normEmail(OrElse(ctx.fromEmail, ctx.from))
      to == normEmail(OrElse(ctx.toEmail, <<>>))
  IN "nocid::h" \o fnv1a(JoinBar(subject, from, to))

\* mutant: the item id is tried before the message id
makeEmailKeyItemFirst(ctx) ==
  LET cid == normStr(ctx.conversationId)
      imid == normStr(ctx.internetMessageId)
      itemId == normStr(OrElse(ctx.itemId, ctx.id))
  IN IF cid # <<>> /\ itemId # <<>> THEN Text(cid) \o "::" \o Text(itemId)
     ELSE IF cid # <<>> /\ imid # <<>> THEN Text(cid) \o "::" \o Text(imid)
     ELSE FallbackKey(ctx)

makeEmailKey(ctx) ==
  LET cid == normStr(ctx.conversationId)
      imid == normStr(ctx.internetMessageId)
      itemId == normStr(OrElse(ctx.itemId, ctx.id))
  IN IF cid # <<>> /\ imid # <<>> THEN Text(cid) \o "::" \o Text(imid)
     ELSE IF cid # <<>> /\ itemId # <<>> THEN Text(cid) \o "::" \o Text(itemId)
     ELSE FallbackKey(ctx)

\* useState<OutlookMessageContext>({}), App.tsx line 41
NoCtx ==
  [conversationId |-> <<>>, internetMessageId |-> <<>>, itemId |-> <<>>, id |-> <<>>,
   subject |-> <<>>, fromEmail |-> <<>>, from |-> <<>>, toEmail |-> <<>>,
   toRecipients |-> <<>>, ccRecipients |-> <<>>]

\* Two messages of one conversation: both have a conversation id and a
\* message id, and makeEmailKey takes its first branch.
Ctxs ==
  { [NoCtx EXCEPT !.conversationId = <<"T", "1">>, !.internetMessageId = <<"M", "1">>],
    [NoCtx EXCEPT !.conversationId = <<"T", "1">>, !.internetMessageId = <<"M", "2">>] }

Keys == { makeEmailKey(c) : c \in Ctxs }

(***************************************************************************)
(* localStorage items.  An item is absent (getItem gives null), holds text *)
(* that JSON.parse rejects, or holds a JSON value.                         *)
(***************************************************************************)
Absent == [kind |-> "null"]
Corrupt == [kind |-> "corrupt"]
Json(v) == [kind |-> "json", val |-> v]

EmptyMap == [k \in {} |-> 0]

\* Array.prototype.slice(-n)
SliceLast(s, n) == IF Len(s) <= n THEN s ELSE SubSeq(s, Len(s) - n + 1, Len(s))

\* map[k] = v on a JSON object
Put(m, k, v) == [x \in (DOMAIN m) \cup {k} |-> IF x = k THEN v ELSE m[x]]

\* the object restricted to the keys in ks
Restrict(m, ks) == [x \in ks |-> m[x]]

(***************************************************************************)
(* Time-boxed store (AiPanel.tsx 51-219, App.tsx 90-105).                  *)
(* ls is the content of localStorage, t is Date.now(), f says which of     *)
(* getItem / setItem currently throws.  Every operator gives the value the *)
(* function returns (ret), the content of localStorage afterwards (ls) and *)
(* whether an exception leaves the function (escaped).                     *)
(***************************************************************************)
NoFault == [get |-> FALSE, set |-> FALSE]
Faults == [get : BOOLEAN, set : BOOLEAN]

\* JavaScript truthiness of a getItem result (stored texts are never "")
Truthy(item) == item.kind # "null"

\* mutant: an entry expires when it is exactly AI_HISTORY_KEEP_MS old
HistoryFreshBefore(arr, t) == SelectSeq(arr, LAMBDA x : t - x.ts < AI_HISTORY_KEEP_MS)

\* loadAiHistory, the .filter(...) of lines 61 and 81
HistoryFresh(arr, t) == SelectSeq(arr, LAMBDA x : t - x.ts <= AI_HISTORY_KEEP_MS)

\* loadAiHistory, the .map(...) of lines 62-67: entries without emailKey are
\* tagged with their conversation
MigrateEntry(x) ==
  [x EXCEPT !.emailKey =
     IF x.emailKey # "" THEN x.emailKey
     ELSE IF x.conversationId # "" THEN "cid:" \o x.conversationId ELSE ""]

MigrateAll(arr) == [i \in 1..Len(arr) |-> MigrateEntry(arr[i])]

\* what loadAiHistory writes back: the pruned list as read
LoadPersisted(pruned) == pruned

\* mutant: no catch, the exception leaves the function
Uncaught(r, dflt) == [ret |-> r.ret, ls |-> r.ls, threw |-> r.threw, escaped |-> r.threw]

\* A try block gives threw (a statement of the block threw), the value it
\* returns and the storage it leaves.  Caught(r, dflt) is the function whose
\* body is try { block } catch { return dflt }: nothing leaves it.
Caught(r, dflt) ==
  [ret |-> IF r.threw THEN dflt ELSE r.ret, ls |-> r.ls, threw |-> r.threw,
   escaped |-> FALSE]

\* lines 52-72: getItem, JSON.parse, setItem in that order; setItem is the
\* first write, so a throw leaves the storage as it was
loadAiHistoryTry(ls, t, f) ==
  LET rawV2 == ls.hV2
      rawV1 == IF Truthy(rawV2) THEN Absent ELSE ls.hV1
      raw == IF Truthy(rawV2) THEN rawV2 ELSE rawV1
      arr == IF Truthy(raw) THEN raw.val ELSE <<>>
      pruned == MigrateAll(HistoryFresh(arr, t))
  IN IF f.get \/ raw.kind = "corrupt" \/ f.set
       THEN [threw |-> TRUE, ret |-> <<>>, ls |-> ls]
       ELSE [threw |-> FALSE, ret |-> pruned,
             ls |-> [ls EXCEPT !.hV2 = Json(LoadPersisted(pruned)),
                               !.hV1 = IF Truthy(rawV1) THEN Absent ELSE @]]

loadAiHistory(ls, t, f) == Caught(loadAiHistoryTry(ls, t, f), <<>>)

\* what saveAiHistory writes: the last 300 of the unexpired entries
SavePersisted(entries, t) == SliceLast(HistoryFresh(entries, t), HistoryCap)

saveAiHistoryTry(entries, ls, t, f) ==
  IF f.set THEN [threw |-> TRUE, ret |-> TRUE, ls |-> ls]
  ELSE [threw |-> FALSE, ret |-> TRUE,
        ls |-> [ls EXCEPT !.hV2 = Json(SavePersisted(entries, t))]]

saveAiHistory(entries, ls, t, f) == Caught(saveAiHistoryTry(entries, ls, t, f), TRUE)

\* loadWorkspaces, line 158: the records that are kept
WorkspaceFresh(v, t) == v.updatedAt # 0 /\ ~(t - v.updatedAt > WORKSPACE_KEEP_MS)

loadWorkspacesTry(ls, t, f) ==
  LET raw == ls.ws
      data == IF Truthy(raw) THEN raw.val ELSE EmptyMap
      out == Restrict(data, {k \in DOMAIN data : WorkspaceFresh(data[k], t)})
      changed == Cardinality(DOMAIN out) # Cardinality(DOMAIN data)
  IN IF f.get \/ raw.kind = "corrupt" \/ (changed /\ f.set)
       THEN [threw |-> TRUE, ret |-> EmptyMap, ls |-> ls]
       ELSE [threw |-> FALSE, ret |-> out,
             ls |-> IF changed THEN [ls EXCEPT !.ws = Json(out)] ELSE ls]

loadWorkspaces(ls, t, f) == Caught(loadWorkspacesTry(ls, t, f), EmptyMap)

\* lines 171-174: loadWorkspaces() has its own catch; then setItem
saveWorkspaceTry(key, ws, ls, t, f) ==
  LET all == loadWorkspaces(ls, t, f)
  IN IF f.set THEN [threw |-> TRUE, ret |-> TRUE, ls |-> all.ls]
     ELSE [threw |-> FALSE, ret |-> TRUE,
           ls |-> [all.ls EXCEPT !.ws = Json(Put(all.ret, key, ws))]]

saveWorkspace(key, ws, ls, t, f) == Caught(saveWorkspaceTry(key, ws, ls, t, f), TRUE)

EmptySlot == [html |-> "", text |-> ""]
makeEmptySlots == [i \in 1..NumSlots |-> EmptySlot]

\* loadWorkspace, line 185: the record of a key that has none
FreshWorkspace(t) ==
  [updatedAt |-> t, activeOption |-> 0, results |-> makeEmptySlots,
   htmlOut |-> "", textOut |-> "", recipientPreset |-> ""]

\* loadWorkspace has no try of its own: it calls loadWorkspaces; hit says
\* that a stored record was found
loadWorkspace(key, ls, t, f) ==
  LET all == loadWorkspaces(ls, t, f)
  IN [ret |-> IF key \in DOMAIN all.ret THEN all.ret[key] ELSE FreshWorkspace(t),
      hit |-> key \in DOMAIN all.ret,
      ls |-> all.ls, threw |-> all.threw, escaped |-> all.escaped]

\* loadSummary, line 196
SummaryExpired(row, t) == t - row.ts > WORKSPACE_KEEP_MS

loadSummaryTry(emailKey, ls, t, f) ==
  LET raw == ls.sum
      map == IF Truthy(raw) THEN raw.val ELSE EmptyMap
  IN IF f.get \/ raw.kind = "corrupt" THEN [threw |-> TRUE, ret |-> "", ls |-> ls]
     ELSE IF emailKey \notin DOMAIN map THEN [threw |-> FALSE, ret |-> "", ls |-> ls]
     ELSE IF SummaryExpired(map[emailKey], t) THEN [threw |-> FALSE, ret |-> "", ls |-> ls]
     ELSE [threw |-> FALSE, ret |-> map[emailKey].text, ls |-> ls]

loadSummary(emailKey, ls, t, f) == Caught(loadSummaryTry(emailKey, ls, t, f), "")

\* upsertSummary: the key the record is stored under
UpsertKey(emailKey) == emailKey

\* the prune of lines 210-213
SummaryKept(row, t) == ~(row.ts = 0 \/ t - row.ts > WORKSPACE_KEEP_MS)

\* ret: the "icc-summary-updated" event was dispatched, carrying emailKey
upsertSummaryTry(emailKey, text, ls, t, f) ==
  LET raw == ls.sum
      map == IF Truthy(raw) THEN raw.val ELSE EmptyMap
      put == Put(map, UpsertKey(emailKey), [ts |-> t, text |-> text])
      kept == Restrict(put, {k \in DOMAIN put : SummaryKept(put[k], t)})
  IN IF f.get \/ raw.kind = "corrupt" \/ f.set
       THEN [threw |-> TRUE, ret |-> FALSE, ls |-> ls]
       ELSE [threw |-> FALSE, ret |-> TRUE, ls |-> [ls EXCEPT !.sum = Json(kept)]]

upsertSummary(emailKey, text, ls, t, f) ==
  LET r == Caught(upsertSummaryTry(emailKey, text, ls, t, f), FALSE)
  IN [ls |-> r.ls, notified |-> r.ret, threw |-> r.threw, escaped |-> r.escaped]

\* mutant: App's loadSummary gives the text and leaves the stored map as it is
AppLoadSummaryKeeping(emailKey, ls, t, f) ==
  LET obj == IF Truthy(ls.sum) THEN ls.sum.val ELSE EmptyMap
  IN [threw |-> FALSE,
      ret |-> IF emailKey \in DOMAIN obj /\ t - obj[emailKey].ts <= SUMMARY_KEEP_MS
                THEN obj[emailKey].text ELSE "",
      ls |-> ls]

\* App.tsx loadSummary: prunes, persists the pruned map when it differs, and
\* gives the text that setSummaryTxt receives (the catch sets "")
AppLoadSummaryTry(emailKey, ls, t, f) ==
  LET raw == ls.sum
      obj == IF Truthy(raw) THEN raw.val ELSE EmptyMap
      pruned == Restrict(obj, {k \in DOMAIN obj : t - obj[k].ts <= SUMMARY_KEEP_MS})
      changed == DOMAIN pruned # DOMAIN obj
  IN IF f.get \/ raw.kind = "corrupt" \/ (changed /\ f.set)
       THEN [threw |-> TRUE, ret |-> "", ls |-> ls]
       ELSE [threw |-> FALSE,
             ret |-> IF emailKey \in DOMAIN pruned THEN pruned[emailKey].text ELSE "",
             ls |-> IF changed THEN [ls EXCEPT !.sum = Json(pruned)] ELSE ls]

AppLoadSummary(emailKey, ls, t, f) == Caught(AppLoadSummaryTry(emailKey, ls, t, f), "")

(***************************************************************************)
(* State                                                                   *)
(***************************************************************************)
VARIABLES
  now,                \* Date.now()
  fault,              \* which of getItem / setItem throws at present
  localStorage,       \* the items hV1, hV2 (history), ws (workspace), sum (summaries)
  ctx,                \* App: the host metadata of the selected message
  tab,                \* App: the tab shown; AiPanel is mounted while it is "ai"
  emailKey,           \* AiPanel: the emailKey memo
  resultSlots,        \* AiPanel: the three result slots
  activeOption,       \* AiPanel: index of the selected slot, 0..2
  busy,               \* AiPanel: busy
  err,                \* AiPanel: err ("" or the message of the failed call)
  aiHistory,          \* AiPanel: the in-memory generation history
  runs,               \* invocations of run() waiting for aiGenerate, with their closures
  saveTimer,          \* the pending debounced workspace save, with its closure
  currentEmailKeyRef, \* AiPanel: currentEmailKeyRef.current
  autoSummaryState,   \* AiPanel: autoSummaryStateRef.current
  autoEffect,         \* the auto-summary effect's cleanup and timer, with their closure
  rawBody,            \* AiPanel: rawBody / body ("" or the body text that was read)
  bodyLoad,           \* the pending getEmailBodyText() of the body load effect
  summaryTxt,         \* App: the summary shown in the task pane
  attempts,           \* log: the times at which an auto-summary was scheduled, per key
  written,            \* log: the time (and text) of the records written, per namespace
  lastCall,           \* log: the observed call of a store function, and its outcome
  budget,             \* what is left of the bounds: appends, clock advances, tab changes, writes
  draft,              \* host: the compose item, the functions of its body, its html
  insertion,          \* AiPanel: the notice, and a log of the draft insertions made
  recipients,         \* AiPanel: recipientRows and recipientPreset
  item,               \* host: the metadata of Office.context.mailbox.item
  app                 \* App: ctxLoadSeqRef, links, msg, and the loads and refreshes in flight

vars ==
  << now, fault, localStorage, ctx, tab, emailKey, resultSlots, activeOption, busy, err,
     aiHistory, runs, saveTimer, currentEmailKeyRef, autoSummaryState, autoEffect,
     rawBody, bodyLoad, summaryTxt, attempts, written, lastCall, budget,
     draft, insertion, recipients, item, app >>

\* the tabs of App (the settings tab hides AiPanel as the odoo tab does)
Tabs == {"odoo", "ai"}

\* run("tasks") takes the path of run("reply") statement by statement, so the
\* user's actions explored are reply and rewrite
UserActions == {"reply", "rewrite"}

\* the html/text a generator call made for the email with key k gives back
Out(k) == "out:" \o k
\* the body text of the email with key k
Body(k) == "body:" \o k
\* the (sanitized html, plain text) pairs a completed call can produce
Responses(k) ==
  { [html |-> Out(k), text |-> Out(k)], [html |-> "", text |-> ""] }

Idle == [action |-> "idle", emailKey |-> "", activeOption |-> 0, auto |-> "",
         bodyText |-> "", htmlOut |-> "", textOut |-> "", live |-> TRUE]
NoTimer == [pending |-> FALSE, emailKey |-> "", activeOption |-> 0,
            slots |-> makeEmptySlots, recipientPreset |-> ""]
NoEffect == [registered |-> FALSE, timer |-> FALSE, key |-> "", bodyText |-> ""]
NoLoad == [pending |-> FALSE, key |-> "", of |-> ""]

\* the number of loadContextAndLinks calls in one behaviour
MaxLoads == 3
\* the number of refreshLinks calls in one behaviour
MaxRefreshes == 1

\* a call of loadContextAndLinks: not made yet, waiting for the metadata
\* ("ctx"), waiting for getLinks(cid) ("links"), or returned
NoCtxLoad == [stage |-> "none", cid |-> ""]
\* setLinks([]) and the initial links state
NoLinks == "[]"
\* App with no load started, no links, no message, no dialog
AppIdle ==
  [seq |-> 0, loads |-> [i \in 1..MaxLoads |-> NoCtxLoad], links |-> NoLinks, msg |-> "",
   refresh |-> [pending |-> FALSE, cid |-> ""], dialog |-> [open |-> FALSE, cid |-> ""],
   refreshes |-> 0]
\* autoSummaryStateRef.current of a fresh mount: {} (line 930), a key without
\* an entry reads as not in flight and never attempted
FreshAutoState == [k \in Keys |-> [inflight |-> FALSE, lastAttempt |-> 0]]
NoCall == [fn |-> "", key |-> "", current |-> "", at |-> 0, retText |-> "",
           retTs |-> 0, retSeq |-> <<>>, threw |-> FALSE, empty |-> FALSE,
           escaped |-> FALSE]

htmlOut == resultSlots[activeOption + 1].html
textOut == resultSlots[activeOption + 1].text
canRun == ctx.conversationId # <<>>

NothingWritten == [sum |-> EmptyMap, ws |-> EmptyMap, hist |-> <<>>]

EmptyStorage == [hV1 |-> Absent, hV2 |-> Absent, ws |-> Absent, sum |-> Absent]

(***************************************************************************)
(* Recipients (AiPanel.tsx 373-517, 1099-1171, 1678-1708).  An address as  *)
(* the host or the user gives it is a sequence of characters; the email of *)
(* a row is the normalized address, a string ("" when it is rejected).     *)
(* The name of a row is left out.                                          *)
(***************************************************************************)
RECURSIVE StripLead(_)
StripLead(s) ==
  IF s # <<>> /\ Head(s) \in {"<", "(", "["} THEN StripLead(Tail(s)) ELSE s

RECURSIVE StripTail(_)
StripTail(s) ==
  IF s # <<>> /\ s[Len(s)] \in {">", ")", "]", ",", ".", ";", ":"} \cup White
    THEN StripTail(SubSeq(s, 1, Len(s) - 1))
    ELSE s

normalizeEmailCandidate(raw) ==
  LET s == toLowerCase(normStr(StripTail(StripLead(normStr(raw)))))
  IN IF ~(\E i \in 1..Len(s) : s[i] = "@") \/ Len(s) < 5 THEN "" ELSE Text(s)

\* getMyEmailLower(): the address of the mailbox's user
myEmailLower == "m@b.io"

NoRecipients == [rows |-> <<>>, preset |-> "reply"]

\* mutant: no row is ever found
FindRowNever(rows, e) == 0

\* rows.find((r) => r.email === e): the index of the first such row, 0 if none
FindRow(rows, e) ==
  IF \E i \in 1..Len(rows) : rows[i].email = e
    THEN CHOOSE i \in 1..Len(rows) :
           rows[i].email = e /\ \A j \in 1..(i - 1) : rows[j].email # e
    ELSE 0

\* mutant: the second set of origins replaces the first
mergeOriginsSecond(a, b) == b

mergeOrigins(a, b) == a \cup b

\* buildHeaderRows: push(email, name, origin)
PushRow(rows, raw, origin) ==
  LET e == normalizeEmailCandidate(raw)
      at == FindRow(rows, e)
  IN IF e = "" THEN rows
     ELSE IF myEmailLower # "" /\ e = myEmailLower THEN rows
     ELSE IF at # 0 THEN [rows EXCEPT ![at].origins = mergeOrigins(@, {origin})]
     ELSE Append(rows, [email |-> e, origins |-> {origin}, include |-> FALSE, role |-> "cc"])

RECURSIVE PushAll(_, _, _)
PushAll(rows, raws, origin) ==
  IF raws = <<>> THEN rows
  ELSE PushAll(PushRow(rows, Head(raws), origin), Tail(raws), origin)

buildHeaderRows(c) ==
  PushAll(PushAll(PushRow(<<>>, c.fromEmail, "from"), c.toRecipients, "to"),
          c.ccRecipients, "cc")

\* mutant: a row found in the body counts as a header row
IsHeaderOrBody(origins) == origins \cap {"to", "cc", "body"} # {}

\* applyPreset, line 511: r.origins.some((o) => o === "to" || o === "cc")
IsHeader(origins) == origins \cap {"to", "cc"} # {}

applyPreset(rows, preset, c) ==
  LET from == normalizeEmailCandidate(c.fromEmail)
      reset == [i \in 1..Len(rows) |-> [rows[i] EXCEPT !.include = FALSE, !.role = "cc"]]
      rr == FindRow(reset, from)
      sender ==
        IF preset \in {"reply", "replyAll"} /\ from # ""
             /\ (myEmailLower = "" \/ from # myEmailLower)
          THEN IF rr # 0
                 THEN [reset EXCEPT ![rr].include = TRUE, ![rr].role = "to"]
                 ELSE <<[email |-> from, origins |-> {"from"}, include |-> TRUE,
                         role |-> "to"]>> \o reset
          ELSE reset
      skip == (IF myEmailLower # "" THEN {myEmailLower} ELSE {})
                \cup (IF from # "" THEN {from} ELSE {})
  IN IF preset = "replyAll"
       THEN [i \in 1..Len(sender) |->
               IF sender[i].email \notin skip /\ IsHeader(sender[i].origins)
                 THEN [sender[i] EXCEPT !.include = TRUE, !.role = "cc"]
                 ELSE sender[i]]
       ELSE sender

\* the effect of lines 1099-1106, run when AiPanel mounts and when emailKey
\* changes
InitRecipients(c) == [rows |-> applyPreset(buildHeaderRows(c), "reply", c), preset |-> "reply"]

\* what the two expressions of extractEmailsFromText match in the body text
\* of the model's emails: a mailto link (matched by both), an address in
\* capitals followed by a comma, and the user's own address
BodyMatches(text) ==
  IF text = Body("T1::M1")
    THEN << <<"c", "@", "b", ".", "i", "o">>, <<"c", "@", "b", ".", "i", "o">>,
            <<"B", "@", "b", ".", "i", "o">>, <<"m", "@", "b", ".", "i", "o">> >>
  ELSE IF text = Body("T1::M2")
    THEN << <<"a", "@", "b", ".", "i", "o">> >>
  ELSE <<>>

\* extractEmailsFromText: the normalized matches, each once
RECURSIVE Clean(_, _)
Clean(matches, clean) ==
  IF matches = <<>> THEN clean
  ELSE LET e == normalizeEmailCandidate(Head(matches))
       IN IF e = "" \/ (\E i \in 1..Len(clean) : clean[i] = e)
            THEN Clean(Tail(matches), clean)
            ELSE Clean(Tail(matches), Append(clean, e))

extractEmailsFromText(text) == Clean(BodyMatches(text), <<>>)

\* mutant: a row that exists is reset when it is found in the body
RECURSIVE AddFoundResetting(_, _)
AddFoundResetting(rows, found) ==
  IF found = <<>> THEN rows
  ELSE LET email == Head(found)
           at == FindRow(rows, email)
       IN IF myEmailLower # "" /\ email = myEmailLower
            THEN AddFoundResetting(rows, Tail(found))
          ELSE IF at # 0
            THEN AddFoundResetting([rows EXCEPT ![at].origins = mergeOrigins(@, {"body"}),
                                                ![at].include = FALSE, ![at].role = "cc"],
                                   Tail(found))
          ELSE AddFoundResetting(Append(rows, [email |-> email, origins |-> {"body"},
                                                include |-> FALSE, role |-> "cc"]),
                                 Tail(found))

RECURSIVE AddFound(_, _)
AddFound(rows, found) ==
  IF found = <<>> THEN rows
  ELSE LET email == Head(found)
           at == FindRow(rows, email)
       IN IF myEmailLower # "" /\ email = myEmailLower THEN AddFound(rows, Tail(found))
          ELSE IF at # 0
            THEN AddFound([rows EXCEPT ![at].origins = mergeOrigins(@, {"body"})], Tail(found))
          ELSE AddFound(Append(rows, [email |-> email, origins |-> {"body"},
                                       include |-> FALSE, role |-> "cc"]), Tail(found))

\* the effect of lines 1140-1162, run when the body text changed; the
\* include-body-emails switch stays on, as it starts
HarvestBody(rec, src) ==
  IF src = "" \/ extractEmailsFromText(src) = <<>> THEN rec
  ELSE [rec EXCEPT !.rows = AddFound(@, extractEmailsFromText(src))]

(***************************************************************************)
(* The host's compose item (Office.context.mailbox.item) and its body.     *)
(* Html is a sequence of pieces; the two sentinel comments are pieces.     *)
(***************************************************************************)
BodyFunctions ==
  {"getAsync", "setAsync", "prependAsync", "appendAsync", "setSelectedDataAsync"}

NoInsertion ==
  [n |-> 0, notice |-> "", tried |-> <<>>, changed |-> <<>>, failed |-> {},
   available |-> {}, content |-> <<>>, markerRun |-> 0, otherChange |-> FALSE,
   first |-> [before |-> <<>>, after |-> <<>>]]

\* no item is open in the host and nothing was inserted
NoCompose ==
  /\ draft = [item |-> FALSE, body |-> FALSE, functions |-> {}, html |-> <<>>]
  /\ insertion = NoInsertion

\* AiPanel freshly mounted on the selected message, with nothing stored
LifeInit ==
  /\ now = 1
  /\ fault = NoFault
  /\ localStorage = EmptyStorage
  /\ ctx \in Ctxs
  /\ tab = "ai"
  /\ emailKey = makeEmailKey(ctx)
  /\ resultSlots = makeEmptySlots
  /\ activeOption = 0
  /\ busy = FALSE
  /\ err = ""
  /\ aiHistory = <<>>
  /\ runs = [i \in 1..MaxRuns |-> Idle]
  /\ saveTimer = [pending |-> TRUE, emailKey |-> emailKey, activeOption |-> 0,
                  slots |-> makeEmptySlots, recipientPreset |-> "reply"]
  /\ currentEmailKeyRef = emailKey
  /\ autoSummaryState = FreshAutoState
  /\ autoEffect = NoEffect
  /\ rawBody = ""
  /\ bodyLoad = [pending |-> TRUE, key |-> emailKey, of |-> emailKey]
  /\ summaryTxt = ""
  /\ attempts = [k \in Keys |-> <<>>]
  /\ written = NothingWritten
  /\ lastCall = NoCall
  /\ recipients = InitRecipients(ctx)
  /\ item = ctx
  /\ app = AppIdle

(***************************************************************************)
(* Effects of AiPanel, as functions of the render they run in              *)
(***************************************************************************)
\* setHtmlOut(h); setTextOut(x): both updaters write slot `opt` of the latest
\* resultSlots (lines 697-711); opt is the activeOption of the calling closure
SetOut(slots, opt, h, x) == [slots EXCEPT ![opt + 1] = [html |-> h, text |-> x]]

\* the key a history entry is filed under
EntryKey(key) == key

\* history append effect (lines 732-754) in a render with the given emailKey,
\* conversation and current output; its updater also persists the list
HistoryAppend(hist, ls, key, conv, h, x, t, f) ==
  IF conv = "" \/ (h = "" /\ x = "")
    THEN [hist |-> hist, ls |-> ls, n |-> 0]
    ELSE LET entry == [ts |-> t, emailKey |-> EntryKey(key), conversationId |-> conv,
                       html |-> h, text |-> x]
             next == Append(hist, entry)
         IN [hist |-> next, ls |-> saveAiHistory(next, ls, t, f).ls, n |-> 1]

\* workspace restore effect (lines 857-871): the slots and the active option
RestoreSlots(ws) ==
  LET slots == [i \in 1..NumSlots |->
                  IF ws.results[i].html # "" \/ ws.results[i].text # ""
                    THEN ws.results[i] ELSE EmptySlot]
  IN IF \E i \in 1..NumSlots : slots[i].html # "" \/ slots[i].text # ""
       THEN slots
       ELSE [slots EXCEPT ![1] = [html |-> ws.htmlOut, text |-> ws.textOut]]

Clamp(n) == IF n < 0 THEN 0 ELSE IF n > NumSlots - 1 THEN NumSlots - 1 ELSE n

\* debounced save effect (lines 876-917): the timer and the closure it keeps
SaveClosureWith(key, opt, slots, preset) ==
  [pending |-> TRUE, emailKey |-> key, activeOption |-> opt, slots |-> slots,
   recipientPreset |-> preset]

\* the closure of a render in which the recipient preset is the one in state
SaveClosure(key, opt, slots) == SaveClosureWith(key, opt, slots, recipients.preset)

\* the record the timer callback hands to saveWorkspace (lines 880-899)
WorkspaceOf(c, t) ==
  [updatedAt |-> t, activeOption |-> c.activeOption, results |-> c.slots,
   htmlOut |-> c.slots[c.activeOption + 1].html,
   textOut |-> c.slots[c.activeOption + 1].text,
   recipientPreset |-> c.recipientPreset]

\* cleanup of the auto-summary effect (lines 980-984): clearTimeout and
\* inflight = false for the key of the run that registered it
AutoCleanup(eff, st) ==
  IF eff.registered THEN [st EXCEPT ![eff.key].inflight = FALSE] ELSE st

\* the throttle test of line 960
Throttled(st, t) == st.lastAttempt # 0 /\ t - st.lastAttempt < AutoThrottleMs

\* mutant: the effect schedules whether or not a summary is cached
AutoSchedulesCached(st, key, conv, bodyNow, ls, t, f) ==
  /\ conv # ""
  /\ bodyNow # ""
  /\ ~st[key].inflight
  /\ ~Throttled(st[key], t)

\* body of the auto-summary effect (lines 941-978) in a render with the given
\* emailKey, conversation and body; st is the ref after the cleanup
AutoSchedules(st, key, conv, bodyNow, ls, t, f) ==
  /\ conv # ""
  /\ loadSummary(key, ls, t, f).ret = ""
  /\ bodyNow # ""
  /\ ~st[key].inflight
  /\ ~Throttled(st[key], t)

AutoRun(eff, st0, key, conv, bodyNow, ls, t, f) ==
  LET st == AutoCleanup(eff, st0)
  IN IF AutoSchedules(st, key, conv, bodyNow, ls, t, f)
       THEN [st |-> [st EXCEPT ![key] = [inflight |-> TRUE, lastAttempt |-> t]],
             eff |-> [registered |-> TRUE, timer |-> TRUE, key |-> key,
                      bodyText |-> bodyNow],
             scheduled |-> TRUE]
       ELSE [st |-> st, eff |-> NoEffect, scheduled |-> FALSE]

\* mutant: the listener shows the text of every event, whatever its key
onSummaryUpdatedAnyKey(k, appKey, shown, ls, f) ==
  IF f.get \/ ls.sum.kind = "corrupt" THEN shown
  ELSE IF Truthy(ls.sum) /\ k \in DOMAIN ls.sum.val THEN ls.sum.val[k].text
  ELSE ""

\* the listener of App.tsx lines 117-128 on an event carrying k
onSummaryUpdated(k, appKey, shown, ls, f) ==
  IF k # appKey THEN shown
  ELSE IF f.get \/ ls.sum.kind = "corrupt" THEN shown
  ELSE IF Truthy(ls.sum) /\ k \in DOMAIN ls.sum.val THEN ls.sum.val[k].text
  ELSE ""

(***************************************************************************)
(* Actions: one event-loop task each, with the renders and effects it      *)
(* causes (React 18 batches the state updates of one task)                 *)
(***************************************************************************)
FreeRun == CHOOSE i \in 1..MaxRuns : runs[i].action = "idle" /\
             \A j \in 1..MaxRuns : runs[j].action = "idle" => i <= j
HasFreeRun == \E i \in 1..MaxRuns : runs[i].action = "idle"

\* App sets ctx to the metadata c of another message: AiPanel (when mounted)
\* renders with the new emailKey and the state of the previous email, the
\* effects that depend on emailKey run in source order, and the state they set
\* is rendered.  With AiPanel unmounted only App's summary load effect runs.
\* The body load effect reads the body of the item the host has selected
\* when it runs, which is `it`.
\* the dependencies of AiPanel's emailKey memo (lines 717-721)
MemoDeps(c) == << c.conversationId, c.internetMessageId, c.itemId, c.id, c.subject >>

ShowContext(c, it) ==
  \E k \in {makeEmailKey(c)} : \E conv \in {Text(c.conversationId)} :
     /\ k # makeEmailKey(ctx)
     /\ tab = "ai" => MemoDeps(c) # MemoDeps(ctx)
     /\ ctx' = c
     /\ IF tab = "ai"
          THEN \* first render: history load, history append, workspace
               \* restore, auto-summary (with the body still in state),
               \* App's summary load
               \E h1 \in {loadAiHistory(localStorage, now, fault)} :
               \E a1 \in {HistoryAppend(h1.ret, h1.ls, k, conv, htmlOut, textOut, now, fault)} :
               \E w \in {loadWorkspace(k, a1.ls, now, fault)} :
               \E slots \in {RestoreSlots(w.ret)} : \E opt \in {Clamp(w.ret.activeOption)} :
               \E au1 \in {AutoRun(autoEffect, autoSummaryState, k, conv, rawBody, w.ls,
                                   now, fault)} :
               \E sm \in {AppLoadSummary(k, w.ls, now, fault)} :
               \* second render: restored slots, cleared body
               \E a2 \in {IF <<slots[opt + 1].html, slots[opt + 1].text>> # <<htmlOut, textOut>>
                            THEN HistoryAppend(a1.hist, sm.ls, k, conv, slots[opt + 1].html,
                                               slots[opt + 1].text, now, fault)
                            ELSE [hist |-> a1.hist, ls |-> sm.ls, n |-> 0]} :
               \E au2 \in {IF rawBody # ""
                             THEN AutoRun(au1.eff, au1.st, k, conv, "", a2.ls, now, fault)
                             ELSE au1} :
               /\ a1.n + a2.n <= budget.appends
               /\ emailKey' = k
               /\ aiHistory' = a2.hist
               /\ budget' = [budget EXCEPT !.appends = @ - a1.n - a2.n]
               /\ localStorage' = a2.ls
               /\ resultSlots' = slots
               /\ activeOption' = opt
               /\ saveTimer' = SaveClosureWith(k, opt, slots, InitRecipients(c).preset)
               /\ currentEmailKeyRef' = k
               /\ autoSummaryState' = au2.st
               /\ autoEffect' = au2.eff
               /\ attempts' = IF au1.scheduled
                                THEN [attempts EXCEPT ![k] = Append(@, now)]
                                ELSE attempts
               /\ rawBody' = ""
               /\ bodyLoad' = [pending |-> TRUE, key |-> k, of |-> makeEmailKey(it)]
               /\ summaryTxt' = sm.ret
               /\ recipients' = InitRecipients(c)
          ELSE \E hidden \in {AppLoadSummary(k, localStorage, now, fault)} :
               /\ localStorage' = hidden.ls
               /\ summaryTxt' = hidden.ret
               /\ UNCHANGED << recipients, emailKey, aiHistory, budget, resultSlots, activeOption,
                               saveTimer, currentEmailKeyRef, autoSummaryState,
                               autoEffect, attempts, rawBody, bodyLoad >>
     /\ UNCHANGED << now, fault, tab, busy, err, runs, written, lastCall >>

\* The host selects another message and App, told by ItemChanged, reads its
\* metadata before anything else happens
SwitchEmail(c) == ShowContext(c, c)

\* the item selected in the host is the one App holds the metadata of
HostInStep == item' = ctx' /\ UNCHANGED app

\* App's tab buttons: {tab === "ai" && <AiPanel ctx={ctx} />} mounts a fresh
\* AiPanel when the AI tab is selected and unmounts it when another tab is.
\* Unmounting runs the effect cleanups (the timers are cleared, the body load
\* is cancelled) and drops the component's state and refs; the calls of
\* aiGenerate already made stay in flight.  Mounting runs the initializer of
\* aiHistory and then the effects in source order, with an empty body.
SetTab(t) ==
  LET k == makeEmailKey(ctx)
      conv == Text(ctx.conversationId)
      h0 == loadAiHistory(localStorage, now, fault)
      h1 == loadAiHistory(h0.ls, now, fault)
      w == loadWorkspace(k, h1.ls, now, fault)
      slots == RestoreSlots(w.ret)
      opt == Clamp(w.ret.activeOption)
      a == HistoryAppend(h1.ret, w.ls, k, conv, slots[opt + 1].html,
                         slots[opt + 1].text, now, fault)
  IN /\ t # tab
     /\ budget.tabs > 0
     /\ tab' = t
     /\ IF t = "ai"
          THEN /\ a.n <= budget.appends
               /\ emailKey' = k
               /\ aiHistory' = a.hist
               /\ budget' = [budget EXCEPT !.appends = @ - a.n, !.tabs = @ - 1]
               /\ localStorage' = a.ls
               /\ resultSlots' = slots
               /\ activeOption' = opt
               /\ saveTimer' = SaveClosureWith(k, opt, slots, InitRecipients(ctx).preset)
               /\ currentEmailKeyRef' = k
               /\ bodyLoad' = [pending |-> TRUE, key |-> k, of |-> makeEmailKey(item)]
               /\ recipients' = InitRecipients(ctx)
               /\ UNCHANGED runs
          ELSE /\ emailKey' = ""
               /\ recipients' = NoRecipients
               /\ aiHistory' = <<>>
               /\ resultSlots' = makeEmptySlots
               /\ activeOption' = 0
               /\ saveTimer' = NoTimer
               /\ currentEmailKeyRef' = ""
               /\ bodyLoad' = NoLoad
               /\ runs' = [i \in 1..MaxRuns |->
                            IF runs[i].action = "idle" THEN Idle
                            ELSE [runs[i] EXCEPT !.live = FALSE]]
               /\ budget' = [budget EXCEPT !.tabs = @ - 1]
               /\ UNCHANGED localStorage
     /\ busy' = FALSE
     /\ err' = ""
     /\ rawBody' = ""
     /\ autoSummaryState' = FreshAutoState
     /\ autoEffect' = NoEffect
     /\ UNCHANGED << now, fault, ctx, summaryTxt, attempts, written, lastCall >>

\* getEmailBodyText() of the body load effect resolves (lines 1119-1138)
BodyLoaded(b) ==
  LET au == IF b # rawBody
              THEN AutoRun(autoEffect, autoSummaryState, emailKey,
                           Text(ctx.conversationId), b, localStorage, now, fault)
              ELSE [st |-> autoSummaryState, eff |-> autoEffect, scheduled |-> FALSE]
  IN /\ bodyLoad.pending
     /\ b \in {"", Body(bodyLoad.of)}
     /\ rawBody' = b
     /\ bodyLoad' = NoLoad
     /\ recipients' = IF b # rawBody THEN HarvestBody(recipients, b) ELSE recipients
     /\ autoSummaryState' = au.st
     /\ autoEffect' = au.eff
     /\ attempts' = IF au.scheduled
                      THEN [attempts EXCEPT ![emailKey] = Append(@, now)] ELSE attempts
     /\ UNCHANGED << now, fault, localStorage, ctx, tab, emailKey, resultSlots, activeOption,
                     busy, err, aiHistory, runs, saveTimer, currentEmailKeyRef,
                     summaryTxt, written, lastCall, budget >>

\* the slot that run() clears when it starts (lines 1226-1229)
StartSlots(action, slots, opt) ==
  IF action # "summarize" THEN SetOut(slots, opt, "", "") ELSE slots

\* the opening of run(action), up to the await of aiGenerate (lines 1212-1259)
StartRun(action, auto, bodyText) ==
  /\ HasFreeRun
  /\ err' = ""
  /\ busy' = TRUE
  /\ resultSlots' = StartSlots(action, resultSlots, activeOption)
  /\ runs' = [runs EXCEPT ![FreeRun] =
                [action |-> action, emailKey |-> emailKey,
                 activeOption |-> activeOption, auto |-> auto,
                 bodyText |-> bodyText, htmlOut |-> htmlOut, textOut |-> textOut,
                 live |-> TRUE]]
  /\ saveTimer' = IF action # "summarize"
                    THEN SaveClosureWith(emailKey, activeOption, resultSlots',
                                         recipients'.preset)
                    ELSE saveTimer

\* the controls that start run(): disabled={busy || !canRun} (lines 1853,
\* 2354), disabled={busy || !rewriteText.trim()} (line 2394)
ControlEnabled(action) == ~busy /\ (action = "rewrite" \/ canRun)

\* the user presses Tarefas / Gerar resposta / Reescrever; Gerar resposta
\* first sets the preset tag from the reply-all checkbox, which is off as it
\* starts (line 2354)
RunStart(action) ==
  /\ action \in UserActions
  /\ tab = "ai"
  /\ ControlEnabled(action)
  /\ recipients' = IF action = "reply" THEN [recipients EXCEPT !.preset = "reply"]
                   ELSE recipients
  /\ StartRun(action, "", rawBody)
  /\ UNCHANGED << now, fault, localStorage, ctx, tab, emailKey, activeOption, aiHistory,
                  currentEmailKeyRef, autoSummaryState, autoEffect, rawBody, bodyLoad,
                  summaryTxt, attempts, written, lastCall, budget >>

\* the auto-summary timer fires (lines 967-978)
AutoTimerFire ==
  /\ autoEffect.timer
  /\ IF currentEmailKeyRef # autoEffect.key
       THEN /\ autoSummaryState' =
                 [autoSummaryState EXCEPT ![autoEffect.key].inflight = FALSE]
            /\ UNCHANGED << err, busy, resultSlots, runs, saveTimer >>
       ELSE /\ StartRun("summarize", autoEffect.key, autoEffect.bodyText)
            /\ UNCHANGED autoSummaryState
  /\ autoEffect' = [autoEffect EXCEPT !.timer = FALSE]
  /\ UNCHANGED << recipients, now, fault, localStorage, ctx, tab, emailKey, activeOption, aiHistory,
                  currentEmailKeyRef, rawBody, bodyLoad, summaryTxt, attempts,
                  written, lastCall, budget >>

\* the finally of the auto-summary timer callback (lines 974-977), which runs
\* when the run("summarize") it awaited has settled
AutoFinally(r, st) == IF r.auto # "" THEN [st EXCEPT ![r.auto].inflight = FALSE] ELSE st

\* mutant: the summary is stored under the identity current at completion
SummaryTargetCurrent(r, current) == current

\* the key under which a completed summarize run stores its text (line 1267)
SummaryTarget(r, current) == r.emailKey

\* the test of line 1276: runEmailKey and emailKey are the same binding of the
\* closure that run() was called in, so the two always agree
SwitchedDuringRun(r) == r.emailKey # r.emailKey

\* the slots after a completed reply / tasks / rewrite run (lines 1276-1306)
DoneSlots(r, resp, slots) ==
  IF SwitchedDuringRun(r) THEN slots
  ELSE SetOut(slots, r.activeOption, resp.html, resp.text)

\* busy after a run has settled (line 1313)
BusyAfterRun(r) == FALSE

\* aiGenerate resolves for the run in slot i: the rest of run()
RunDone(i, resp) ==
  LET r == runs[i]
      up == IF r.action = "summarize" /\ r.emailKey # "" /\ resp.text # ""
              THEN upsertSummary(SummaryTarget(r, emailKey), resp.text,
                                 localStorage, now, fault)
              ELSE [ls |-> localStorage, notified |-> FALSE, threw |-> FALSE,
                    escaped |-> FALSE]
      summarized == r.action = "summarize" /\ r.emailKey # "" /\ resp.text # ""
      \* the state setters of an unmounted AiPanel do nothing
      slots == IF r.action = "summarize" \/ ~r.live THEN resultSlots
               ELSE DoneSlots(r, resp, resultSlots)
      newH == slots[activeOption + 1].html
      newT == slots[activeOption + 1].text
      a == IF <<newH, newT>> # <<htmlOut, textOut>>
             THEN HistoryAppend(aiHistory, up.ls, emailKey, Text(ctx.conversationId),
                                newH, newT, now, fault)
             ELSE [hist |-> aiHistory, ls |-> up.ls, n |-> 0]
      \* the workspace write of the branch of lines 1279-1296
      sw == IF r.action # "summarize" /\ SwitchedDuringRun(r)
              THEN saveWorkspace(r.emailKey,
                     [updatedAt |-> now, activeOption |-> 0,
                      results |-> makeEmptySlots,
                      htmlOut |-> resp.html, textOut |-> resp.text,
                      recipientPreset |-> recipients.preset],
                     a.ls, now, fault).ls
              ELSE a.ls
  IN /\ r.action # "idle"
     /\ resp \in Responses(r.emailKey)
     /\ a.n <= budget.appends
     /\ runs' = [runs EXCEPT ![i] = Idle]
     /\ resultSlots' = slots
     /\ aiHistory' = a.hist
     /\ budget' = [budget EXCEPT !.appends = @ - a.n]
     /\ localStorage' = sw
     /\ summaryTxt' = IF up.notified
                        THEN onSummaryUpdated(SummaryTarget(r, emailKey),
                                              makeEmailKey(ctx), summaryTxt, up.ls, fault)
                        ELSE summaryTxt
     /\ saveTimer' = IF r.action # "summarize" /\ r.live /\ ~SwitchedDuringRun(r)
                       THEN SaveClosure(emailKey, activeOption, slots) ELSE saveTimer
     /\ busy' = IF r.live THEN BusyAfterRun(r) ELSE busy
     /\ autoSummaryState' = IF r.live THEN AutoFinally(r, autoSummaryState)
                             ELSE autoSummaryState
     /\ lastCall' = IF summarized
                      THEN [NoCall EXCEPT !.fn = "upsertSummary",
                                          !.key = SummaryTarget(r, emailKey),
                                          !.current = emailKey, !.at = now,
                                          !.threw = up.threw, !.escaped = up.escaped]
                      ELSE lastCall
     /\ UNCHANGED << recipients,
                     now, fault, ctx, tab, emailKey, activeOption, err, currentEmailKeyRef,
                     autoEffect, rawBody, bodyLoad, attempts, written >>

\* what the catch of run() leaves in the result slots (lines 1310-1312)
FailSlots(r, slots) == slots

\* aiGenerate rejects for the run in slot i: catch and finally of run()
RunFail(i) ==
  LET r == runs[i]
  IN /\ r.action # "idle"
     /\ runs' = [runs EXCEPT ![i] = Idle]
     /\ err' = IF r.live THEN "aiGenerate failed" ELSE err
     /\ busy' = IF r.live THEN BusyAfterRun(r) ELSE busy
     /\ resultSlots' = IF r.live THEN FailSlots(r, resultSlots) ELSE resultSlots
     /\ autoSummaryState' = IF r.live THEN AutoFinally(r, autoSummaryState)
                             ELSE autoSummaryState
     /\ UNCHANGED << recipients, now, fault, localStorage, ctx, tab, emailKey, activeOption,
                     aiHistory, saveTimer, currentEmailKeyRef, autoEffect, rawBody,
                     bodyLoad, summaryTxt, attempts, written, lastCall, budget >>

\* the debounce timer fires: saveWorkspace with the closure's state
SaveTimerFire ==
  /\ saveTimer.pending
  /\ localStorage' = saveWorkspace(saveTimer.emailKey, WorkspaceOf(saveTimer, now),
                                   localStorage, now, fault).ls
  /\ saveTimer' = NoTimer
  /\ UNCHANGED << recipients, now, fault, ctx, tab, emailKey, resultSlots, activeOption, busy, err,
                  aiHistory, runs, currentEmailKeyRef, autoSummaryState, autoEffect,
                  rawBody, bodyLoad, summaryTxt, attempts, written, lastCall, budget >>

\* the user selects result tab i (line 1763)
SetActiveOption(i) ==
  LET newH == resultSlots[i + 1].html
      newT == resultSlots[i + 1].text
      a == IF <<newH, newT>> # <<htmlOut, textOut>>
             THEN HistoryAppend(aiHistory, localStorage, emailKey, Text(ctx.conversationId),
                                newH, newT, now, fault)
             ELSE [hist |-> aiHistory, ls |-> localStorage, n |-> 0]
  IN /\ tab = "ai"
     /\ i # activeOption
     /\ a.n <= budget.appends
     /\ activeOption' = i
     /\ aiHistory' = a.hist
     /\ budget' = [budget EXCEPT !.appends = @ - a.n]
     /\ localStorage' = a.ls
     /\ saveTimer' = SaveClosure(emailKey, i, resultSlots)
     /\ UNCHANGED << recipients, now, fault, ctx, tab, emailKey, resultSlots, busy, err, runs,
                     currentEmailKeyRef, autoSummaryState, autoEffect, rawBody,
                     bodyLoad, summaryTxt, attempts, written, lastCall >>

\* time passes
Tick(d) ==
  /\ budget.ticks > 0
  /\ now' = now + d
  /\ budget' = [budget EXCEPT !.ticks = @ - 1]
  /\ UNCHANGED << recipients,
                  fault, localStorage, ctx, tab, emailKey, resultSlots, activeOption, busy,
                  err, aiHistory, runs, saveTimer, currentEmailKeyRef,
                  autoSummaryState, autoEffect, rawBody, bodyLoad, summaryTxt,
                  attempts, written, lastCall >>

(***************************************************************************)
(* Spec: generation lifecycle of the user's actions.  The host gives no    *)
(* body text (getEmailBodyText is best effort), so no auto-summary starts. *)
(***************************************************************************)
Init ==
  /\ LifeInit
  /\ NoCompose
  /\ budget = [appends |-> MaxAppends, ticks |-> 0, tabs |-> 0, writes |-> 0, edits |-> 0]

Next ==
  /\ \/ \E c \in Ctxs : SwitchEmail(c)
     \/ \E a \in UserActions : RunStart(a)
     \/ \E i \in 1..MaxRuns : \E resp \in Responses(runs[i].emailKey) : RunDone(i, resp)
     \/ \E i \in 1..MaxRuns : RunFail(i)
     \/ SaveTimerFire
     \/ \E i \in 0..MaxTab : SetActiveOption(i)
  /\ UNCHANGED << draft, insertion >>
  /\ HostInStep

Spec == Init /\ [][Next]_vars

(***************************************************************************)
(* BusySpec: the user's actions beside the auto-summary, which starts once *)
(* the body text has been read.  The debounce timer never gets to fire     *)
(* (each state change restarts it), so no workspace record is written.     *)
(***************************************************************************)
BusyInit ==
  /\ LifeInit
  /\ NoCompose
  /\ budget = [appends |-> MaxAutoAppends, ticks |-> 0, tabs |-> 0, writes |-> 0, edits |-> 0]

BusyNext ==
  /\ \/ \E c \in Ctxs : SwitchEmail(c)
     \/ \E b \in {""} \cup {Body(k) : k \in Keys} : BodyLoaded(b)
     \/ \E a \in UserActions : RunStart(a)
     \/ AutoTimerFire
     \/ \E i \in 1..MaxRuns : \E resp \in Responses(runs[i].emailKey) : RunDone(i, resp)
     \/ \E i \in 1..MaxRuns : RunFail(i)
  /\ UNCHANGED << draft, insertion >>
  /\ HostInStep

BusySpec == BusyInit /\ [][BusyNext]_vars

(***************************************************************************)
(* AutoSpec: the auto-summary over time; the user reads and switches       *)
(* emails, leaves the AI tab and comes back to it, and starts no           *)
(* generation.  The debounced workspace save is left out: it writes the    *)
(* workspace item, which the auto-summary never reads.                     *)
(***************************************************************************)
AutoInit ==
  /\ LifeInit
  /\ NoCompose
  /\ budget = [appends |-> 0, ticks |-> MaxTicks, tabs |-> MaxTabSwitches, writes |-> 0,
               edits |-> 0]

AutoNext ==
  /\ \/ \E c \in Ctxs : SwitchEmail(c)
     \/ \E b \in {""} \cup {Body(k) : k \in Keys} : BodyLoaded(b)
     \/ AutoTimerFire
     \/ \E i \in 1..MaxRuns : \E resp \in Responses(runs[i].emailKey) : RunDone(i, resp)
     \/ \E i \in 1..MaxRuns : RunFail(i)
     \/ \E d \in {AutoThrottleMs - 1, AutoThrottleMs} : Tick(d)
     \/ \E t \in Tabs : SetTab(t)
  /\ UNCHANGED << draft, insertion >>
  /\ HostInStep

AutoSpec == AutoInit /\ [][AutoNext]_vars

(***************************************************************************)
(* The store functions as their callers in AiPanel and App apply them,     *)
(* each call with the state change its caller makes of the result.         *)
(***************************************************************************)
PanelState ==
  << emailKey, resultSlots, activeOption, busy, err, runs, saveTimer,
     currentEmailKeyRef, autoSummaryState, autoEffect, rawBody, bodyLoad, attempts,
     recipients >>

TsOf(entries) == [i \in 1..Len(entries) |-> entries[i].ts]

\* setAiHistory(loadAiHistory()) (lines 713, 728)
CallLoadAiHistory ==
  LET r == loadAiHistory(localStorage, now, fault)
  IN /\ tab = "ai"
     /\ aiHistory' = r.ret
     /\ localStorage' = r.ls
     /\ lastCall' = [NoCall EXCEPT !.fn = "loadAiHistory", !.at = now,
                                   !.retSeq = TsOf(r.ret), !.threw = r.threw,
                                   !.empty = (r.ret = <<>>), !.escaped = r.escaped]
     /\ UNCHANGED << now, fault, ctx, tab, summaryTxt, written, budget >>
     /\ UNCHANGED PanelState

\* the updater of the history append effect (lines 749-753) with an entry
\* made of output for the current email
CallSaveAiHistory ==
  LET entry == [ts |-> now, emailKey |-> emailKey,
                conversationId |-> Text(ctx.conversationId),
                html |-> Out(emailKey), text |-> Out(emailKey)]
      next == Append(aiHistory, entry)
      r == saveAiHistory(next, localStorage, now, fault)
  IN /\ tab = "ai"
     /\ budget.writes > 0
     /\ budget' = [budget EXCEPT !.writes = @ - 1]
     /\ aiHistory' = next
     /\ localStorage' = r.ls
     /\ written' = IF r.threw THEN written
                   ELSE [written EXCEPT !.hist = Append(@, now)]
     /\ lastCall' = [NoCall EXCEPT !.fn = "saveAiHistory", !.at = now,
                                   !.threw = r.threw, !.escaped = r.escaped]
     /\ UNCHANGED << now, fault, ctx, tab, summaryTxt >>
     /\ UNCHANGED PanelState

\* the workspace record of an email on whose second result tab nothing has
\* been generated yet (lines 880-899)
PlainWorkspace(t) == [FreshWorkspace(t) EXCEPT !.activeOption = 1]

\* saveWorkspace({key: k, updatedAt: Date.now(), ...}) (lines 880-899)
CallSaveWorkspace(k) ==
  LET r == saveWorkspace(k, PlainWorkspace(now), localStorage, now, fault)
  IN /\ tab = "ai"
     /\ budget.writes > 0
     /\ budget' = [budget EXCEPT !.writes = @ - 1]
     /\ localStorage' = r.ls
     /\ written' = IF r.threw THEN written
                   ELSE [written EXCEPT !.ws = Put(@, k, now)]
     /\ lastCall' = [NoCall EXCEPT !.fn = "saveWorkspace", !.key = k, !.at = now,
                                   !.threw = r.threw, !.escaped = r.escaped]
     /\ UNCHANGED << now, fault, ctx, tab, aiHistory, summaryTxt >>
     /\ UNCHANGED PanelState

\* loadWorkspace(k) (line 849)
CallLoadWorkspace(k) ==
  LET r == loadWorkspace(k, localStorage, now, fault)
  IN /\ tab = "ai"
     /\ localStorage' = r.ls
     /\ lastCall' = [NoCall EXCEPT !.fn = "loadWorkspace", !.key = k, !.at = now,
                                   !.retTs = IF r.hit THEN r.ret.updatedAt ELSE 0,
                                   !.threw = r.threw,
                                   !.empty = (r.ret = FreshWorkspace(now)),
                                   !.escaped = r.escaped]
     /\ UNCHANGED << now, fault, ctx, tab, aiHistory, summaryTxt, written, budget >>
     /\ UNCHANGED PanelState

\* upsertSummary(k, text) (line 1267) and App's listener of the event
CallUpsertSummary(k) ==
  LET r == upsertSummary(k, Out(k), localStorage, now, fault)
  IN /\ tab = "ai"
     /\ budget.writes > 0
     /\ budget' = [budget EXCEPT !.writes = @ - 1]
     /\ localStorage' = r.ls
     /\ summaryTxt' = IF r.notified
                        THEN onSummaryUpdated(k, makeEmailKey(ctx), summaryTxt, r.ls, fault)
                        ELSE summaryTxt
     /\ written' = IF r.threw THEN written
                   ELSE [written EXCEPT !.sum = Put(@, k, [ts |-> now, text |-> Out(k)])]
     /\ lastCall' = [NoCall EXCEPT !.fn = "upsertSummary", !.key = k, !.at = now,
                                   !.current = emailKey,
                                   !.threw = r.threw, !.escaped = r.escaped]
     /\ UNCHANGED << now, fault, ctx, tab, aiHistory >>
     /\ UNCHANGED PanelState

\* loadSummary(k) of AiPanel (lines 888, 946)
CallLoadSummary(k) ==
  LET r == loadSummary(k, localStorage, now, fault)
  IN /\ tab = "ai"
     /\ localStorage' = r.ls
     /\ lastCall' = [NoCall EXCEPT !.fn = "loadSummary", !.key = k, !.at = now,
                                   !.retText = r.ret, !.threw = r.threw,
                                   !.empty = (r.ret = ""), !.escaped = r.escaped]
     /\ UNCHANGED << now, fault, ctx, tab, aiHistory, summaryTxt, written, budget >>
     /\ UNCHANGED PanelState

\* loadSummary(emailKey) of App (App.tsx line 112)
CallAppLoadSummary ==
  LET k == makeEmailKey(ctx)
      r == AppLoadSummary(k, localStorage, now, fault)
  IN /\ localStorage' = r.ls
     /\ summaryTxt' = r.ret
     /\ lastCall' = [NoCall EXCEPT !.fn = "AppLoadSummary", !.key = k, !.at = now,
                                   !.retText = r.ret, !.threw = r.threw,
                                   !.empty = (r.ret = ""), !.escaped = r.escaped]
     /\ UNCHANGED << now, fault, ctx, tab, aiHistory, written, budget >>
     /\ UNCHANGED PanelState

\* localStorage starts or stops throwing (quota exceeded, storage disabled)
SetFault(f) ==
  /\ f # fault
  /\ fault' = f
  /\ UNCHANGED << now, localStorage, ctx, tab, aiHistory, summaryTxt, written,
                  lastCall, budget >>
  /\ UNCHANGED PanelState

StorageItems == {"hV1", "hV2", "ws", "sum"}

\* an item of localStorage comes to hold text that JSON.parse rejects
CorruptItem(name) ==
  /\ localStorage[name] # Corrupt
  /\ localStorage' = [localStorage EXCEPT ![name] = Corrupt]
  /\ UNCHANGED << now, fault, ctx, tab, aiHistory, summaryTxt, written, lastCall,
                  budget >>
  /\ UNCHANGED PanelState

(***************************************************************************)
(* StoreSpec: retention and the history cap, without storage failures.     *)
(* App starts on its odoo tab (App.tsx line 40), AiPanel is mounted by the *)
(* first SetTab.  localStorage holds the history of earlier sessions: a v2 *)
(* list as saveAiHistory leaves it (at most 300 entries) or a v1 list of   *)
(* entries without emailKey.                                               *)
(***************************************************************************)
StoredEntry(i) ==
  [ts |-> i, emailKey |-> "T1::M1", conversationId |-> "T1",
   html |-> Out("T1::M1"), text |-> Out("T1::M1")]

LegacyEntry(i) == [StoredEntry(i) EXCEPT !.emailKey = ""]

StoredHistories ==
  { [EmptyStorage EXCEPT !.hV2 = Json([i \in 1..n |-> StoredEntry(i)])] :
      n \in {HistoryCap - 1, HistoryCap} }
  \cup
  { [EmptyStorage EXCEPT !.hV1 = Json([i \in 1..n |-> LegacyEntry(i)])] :
      n \in {1, HistoryCap + 1} }

StoredHistory(ls) ==
  IF Truthy(ls.hV2) THEN ls.hV2.val ELSE IF Truthy(ls.hV1) THEN ls.hV1.val ELSE <<>>

\* App with AiPanel not mounted
PanelAbsent ==
  /\ tab = "odoo"
  /\ emailKey = ""
  /\ resultSlots = makeEmptySlots
  /\ activeOption = 0
  /\ busy = FALSE
  /\ err = ""
  /\ aiHistory = <<>>
  /\ runs = [i \in 1..MaxRuns |-> Idle]
  /\ saveTimer = NoTimer
  /\ currentEmailKeyRef = ""
  /\ autoSummaryState = FreshAutoState
  /\ autoEffect = NoEffect
  /\ rawBody = ""
  /\ bodyLoad = NoLoad
  /\ summaryTxt = ""
  /\ attempts = [k \in Keys |-> <<>>]
  /\ lastCall = NoCall
  /\ recipients = NoRecipients

StoreInit ==
  /\ PanelAbsent
  /\ NoCompose
  /\ now = HistoryCap + 2
  /\ fault = NoFault
  /\ ctx \in Ctxs
  /\ localStorage \in StoredHistories
  /\ written = [NothingWritten EXCEPT !.hist = TsOf(StoredHistory(localStorage))]
  /\ budget = [appends |-> 0, ticks |-> MaxStoreTicks, tabs |-> MaxStoreTabs,
               writes |-> MaxStoreWrites, edits |-> 0]
  /\ item = ctx
  /\ app = AppIdle

StoreNext ==
  /\ \/ \E t \in Tabs : SetTab(t)
     \/ CallLoadAiHistory
     \/ CallSaveAiHistory
     \/ \E k \in Keys : CallSaveWorkspace(k)
     \/ \E k \in Keys : CallLoadWorkspace(k)
     \/ \E k \in Keys : CallUpsertSummary(k)
     \/ \E k \in Keys : CallLoadSummary(k)
     \/ CallAppLoadSummary
     \/ \E d \in {1, WORKSPACE_KEEP_MS} : Tick(d)
  /\ UNCHANGED << draft, insertion >>
  /\ HostInStep

StoreSpec == StoreInit /\ [][StoreNext]_vars

(***************************************************************************)
(* FaultSpec: the store functions while getItem / setItem throw or an item *)
(* holds corrupted JSON.                                                   *)
(***************************************************************************)
FaultInit ==
  /\ PanelAbsent
  /\ NoCompose
  /\ now = 1
  /\ fault = NoFault
  /\ ctx \in Ctxs
  /\ localStorage = EmptyStorage
  /\ written = NothingWritten
  /\ budget = [appends |-> 0, ticks |-> MaxFaultTicks, tabs |-> MaxFaultTabs,
               writes |-> MaxFaultWrites, edits |-> 0]
  /\ item = ctx
  /\ app = AppIdle

FaultNext ==
  /\ \/ \E t \in Tabs : SetTab(t)
     \/ CallLoadAiHistory
     \/ CallSaveAiHistory
     \/ \E k \in Keys : CallSaveWorkspace(k)
     \/ \E k \in Keys : CallLoadWorkspace(k)
     \/ \E k \in Keys : CallUpsertSummary(k)
     \/ \E k \in Keys : CallLoadSummary(k)
     \/ CallAppLoadSummary
     \/ \E d \in {WORKSPACE_KEEP_MS + 1} : Tick(d)
     \/ \E f \in Faults : SetFault(f)
     \/ \E name \in StorageItems : CorruptItem(name)
  /\ UNCHANGED << draft, insertion >>
  /\ HostInStep

FaultSpec == FaultInit /\ [][FaultNext]_vars

(***************************************************************************)
(* Claims about the generation lifecycle                                   *)
(***************************************************************************)
\* the run in slot i settles in this step, with a result / with a failure
Completes(i) == runs[i].action # "idle" /\ runs'[i].action = "idle" /\ err' = ""
Fails(i) == runs[i].action # "idle" /\ runs'[i].action = "idle" /\ err' # ""

\* the workspace records in localStorage content ls
StoredWorkspaces(ls) == IF ls.ws.kind = "json" THEN ls.ws.val ELSE EmptyMap

\* html/text value v was generated for the email with key k, or is empty
OwnOutput(v, k) == v \in {"", Out(k)}

\* C1: when a reply / rewrite / tasks run that was started for identity A
\* completes while the current identity is B, the result slots shown (B's)
\* stay as they are and the result is stored in the Workspace record of A.
C1_ResultGoesToOriginatingWorkspace ==
  [][\A i \in 1..MaxRuns :
       (Completes(i) /\ runs[i].action \in UserActions /\ runs[i].emailKey # emailKey)
         => /\ resultSlots' = resultSlots
            /\ runs[i].emailKey \in DOMAIN StoredWorkspaces(localStorage')]_vars

\* C2: every history entry filed under identity K, in memory and stored, and
\* every Workspace record stored under K, holds only output generated for K.
C2_OutputsFiledUnderOwnIdentity ==
  /\ \A i \in 1..Len(aiHistory) :
       /\ OwnOutput(aiHistory[i].html, aiHistory[i].emailKey)
       /\ OwnOutput(aiHistory[i].text, aiHistory[i].emailKey)
  /\ localStorage.hV2.kind = "json" =>
       \A i \in 1..Len(localStorage.hV2.val) :
         /\ OwnOutput(localStorage.hV2.val[i].html, localStorage.hV2.val[i].emailKey)
         /\ OwnOutput(localStorage.hV2.val[i].text, localStorage.hV2.val[i].emailKey)
  /\ \A k \in DOMAIN StoredWorkspaces(localStorage) :
       LET ws == StoredWorkspaces(localStorage)[k]
       IN /\ OwnOutput(ws.htmlOut, k) /\ OwnOutput(ws.textOut, k)
          /\ \A j \in 1..NumSlots :
               OwnOutput(ws.results[j].html, k) /\ OwnOutput(ws.results[j].text, k)

\* C4: when the generator call of a run fails, the error is surfaced, busy
\* becomes false and the slot the run was started on holds what it held
\* immediately before the run was started.
C4_FailureLeavesStateAsBeforeStart ==
  [][\A i \in 1..MaxRuns :
       Fails(i) =>
         /\ busy' = FALSE
         /\ resultSlots'[runs[i].activeOption + 1] =
              [html |-> runs[i].htmlOut, text |-> runs[i].textOut]]_vars

(***************************************************************************)
(* Claims about the summarize run and the auto-summary                     *)
(***************************************************************************)
\* the run in slot i settles in this step
Settles(i) == runs[i].action # "idle" /\ runs'[i].action = "idle"

\* the summaries in localStorage content ls, and the text stored for key k
StoredSummaries(ls) == IF ls.sum.kind = "json" THEN ls.sum.val ELSE EmptyMap
StoredSummaryText(ls, k) ==
  IF k \in DOMAIN StoredSummaries(ls) THEN StoredSummaries(ls)[k].text ELSE ""

\* C3: a summarize run that settles changes no result slot and not the active
\* option, writes neither the workspace nor the history, and changes the
\* Summaries namespace at most under the identity it captured when it started.
C3_SummarizeWritesOnlyItsOwnSummary ==
  [][\A i \in 1..MaxRuns :
       (Settles(i) /\ runs[i].action = "summarize")
         => /\ resultSlots' = resultSlots
            /\ activeOption' = activeOption
            /\ aiHistory' = aiHistory
            /\ localStorage'.ws = localStorage.ws
            /\ localStorage'.hV2 = localStorage.hV2
            /\ \A k \in Keys \ {runs[i].emailKey} :
                 StoredSummaryText(localStorage', k) = StoredSummaryText(localStorage, k)]_vars

\* C3 witness: a summarize run has stored its text under the identity it was
\* started for while another identity was current.
C3_Witness ==
  /\ lastCall.fn = "upsertSummary"
  /\ ~lastCall.threw
  /\ lastCall.key # lastCall.current
  /\ StoredSummaryText(localStorage, lastCall.key) = Out(lastCall.key)

\* C5: while a generator call is in flight busy is true, and no two calls of
\* the same action are in flight together.
C5_BusyWhileInFlight ==
  /\ (\E i \in 1..MaxRuns : runs[i].action # "idle") => busy
  /\ \A i, j \in 1..MaxRuns :
       (i # j /\ runs[i].action # "idle" /\ runs[j].action # "idle")
         => runs[i].action # runs[j].action

\* C7: the summary the task pane shows is the stored summary of its current
\* identity (empty when none is stored): an upsert under the current identity
\* is shown through the event, an upsert under another identity changes nothing.
C7_ShownSummaryIsStoredSummary ==
  summaryTxt = StoredSummaryText(localStorage, makeEmailKey(ctx))

\* C7 witness: the event of an upsert made for the current identity was
\* received and the text is shown, while another identity has a summary too.
C7_Witness ==
  /\ lastCall.fn = "upsertSummary"
  /\ lastCall.key = lastCall.current
  /\ lastCall.key = makeEmailKey(ctx)
  /\ summaryTxt = Out(makeEmailKey(ctx))
  /\ \E k \in Keys \ {makeEmailKey(ctx)} : StoredSummaryText(localStorage, k) # ""

\* C8: any two auto-summary attempts for one identity are at least 30 seconds
\* apart.
C8_AttemptsThirtySecondsApart ==
  \A k \in Keys : \A i, j \in 1..Len(attempts[k]) :
    i < j => attempts[k][j] - attempts[k][i] >= AutoThrottleMs

(***************************************************************************)
(* Claims about the time-boxed store                                       *)
(***************************************************************************)
\* the retention period the specification gives for all three namespaces
FiveDays == 5 * 24 * 60 * 60 * 1000

Returned(seq, ts) == \E j \in 1..Len(seq) : seq[j] = ts

\* a read of the summaries / of the workspace gives the record written last
\* under the key while it is at most five days old, and nothing afterwards
SummaryReadInTime ==
  (lastCall.fn \in {"loadSummary", "AppLoadSummary"} /\ lastCall.key \in DOMAIN written.sum)
    => lastCall.retText =
         IF lastCall.at - written.sum[lastCall.key].ts <= FiveDays
           THEN written.sum[lastCall.key].text ELSE ""

WorkspaceReadInTime ==
  (lastCall.fn = "loadWorkspace" /\ lastCall.key \in DOMAIN written.ws)
    => lastCall.retTs =
         IF lastCall.at - written.ws[lastCall.key] <= FiveDays
           THEN written.ws[lastCall.key] ELSE 0

Loads == {"loadAiHistory", "loadWorkspace", "loadSummary", "AppLoadSummary"}
Saves == {"saveAiHistory", "saveWorkspace", "upsertSummary"}

\* C9: when a storage call of a store function throws or the JSON it reads is
\* corrupted, a load returns the empty value, a save leaves the state of the
\* components as it is (but for the entry its caller appends in memory), and
\* no exception leaves the function.
C9_StorageFailureIsContained ==
  [][(lastCall' # lastCall /\ lastCall'.threw)
       => /\ ~lastCall'.escaped
          /\ lastCall'.fn \in Loads => lastCall'.empty
          /\ lastCall'.fn \in Saves =>
               /\ summaryTxt' = summaryTxt
               /\ resultSlots' = resultSlots
               /\ activeOption' = activeOption
               /\ lastCall'.fn # "saveAiHistory" => aiHistory' = aiHistory]_vars

\* C9 witness: a read of the history failed on a corrupted item while entries
\* had been written, and gave the empty list.
C9_Witness ==
  /\ lastCall.fn = "loadAiHistory"
  /\ lastCall.threw
  /\ lastCall.empty
  /\ localStorage.hV2 = Corrupt
  /\ Len(written.hist) > 0

\* the entries of a list, as a set
Entries(seq) == { seq[i] : i \in 1..Len(seq) }

\* C10: whenever the stored history list is written, it holds at most 300
\* entries, they are the last of the unexpired entries in memory, and each
\* of them is an entry that was stored or in memory before, or the entry
\* appended in this step.
C10_StoredHistoryCappedAndUnmodified ==
  [][(localStorage'.hV2 # localStorage.hV2 /\ localStorage'.hV2.kind = "json")
       => /\ Len(localStorage'.hV2.val) <= HistoryCap
          /\ localStorage'.hV2.val =
               SliceLast(HistoryFresh(aiHistory', now), HistoryCap)
          /\ \A e \in Entries(localStorage'.hV2.val) :
               \/ e \in Entries(StoredHistory(localStorage)) \cup Entries(aiHistory)
               \/ e.ts = now]_vars

(***************************************************************************)
(* KeySpec: makeEmailKey over the metadata the host can deliver.  App is   *)
(* on its odoo tab; a summary of message M1 of conversation T1 is stored.  *)
(***************************************************************************)
T1 == <<"T", "1">>
M1 == <<"M", "1">>
M2 == <<"M", "2">>

\* metadata with and without each id, the ids also padded
IdMetas ==
  { [NoCtx EXCEPT !.conversationId = c, !.internetMessageId = i, !.itemId = t,
                  !.id = d, !.subject = s] :
      c \in {<<>>, T1, <<" ", "T", "1">>}, i \in {<<>>, M1, M2},
      t \in {<<>>, <<"I", "1">>}, d \in {<<>>, <<"I", "2">>},
      s \in {<<>>, <<"a", " ", "b">>} }

\* metadata without a message id and an item id, the subject and the sender
\* written in several ways
HashMetas ==
  { [NoCtx EXCEPT !.conversationId = c, !.subject = s, !.fromEmail = f,
                  !.from = g, !.toEmail = r] :
      c \in {<<>>, T1},
      s \in {<<>>, <<"a", " ", "b">>, <<"A", " ", "\t", "b", " ">>, <<"a", "b">>},
      f \in {<<>>, <<"a", "@", "b">>, <<" ", "A", "@", "b">>, <<"a", " ", "@", "b">>},
      g \in {<<>>, <<"b", "@", "a">>},
      r \in {<<>>, <<"b", "@", "b">>} }

Metas == IdMetas \cup HashMetas

\* loadContextAndLinks: setCtx(c) (App.tsx line 139), the emailKey memo (line
\* 107) and, when the key changed, the summary load effect (lines 109-114)
SelectMessage(c) ==
  LET k == makeEmailKey(c)
      r == AppLoadSummary(k, localStorage, now, fault)
  IN /\ tab = "odoo"
     /\ c # ctx
     /\ ctx' = c
     /\ IF k # makeEmailKey(ctx)
          THEN /\ localStorage' = r.ls
               /\ summaryTxt' = r.ret
          ELSE UNCHANGED << localStorage, summaryTxt >>
     /\ UNCHANGED << now, fault, tab, aiHistory, written, lastCall, budget >>
     /\ UNCHANGED PanelState

KeyInit ==
  /\ PanelAbsent
  /\ NoCompose
  /\ now = 2
  /\ fault = NoFault
  /\ ctx = NoCtx
  /\ localStorage =
       [EmptyStorage EXCEPT
          !.sum = Json(Put(EmptyMap, "T1::M1", [ts |-> 1, text |-> Out("T1::M1")]))]
  /\ written = [NothingWritten EXCEPT
                  !.sum = Put(EmptyMap, "T1::M1", [ts |-> 1, text |-> Out("T1::M1")])]
  /\ budget = [appends |-> 0, ticks |-> 0, tabs |-> 0, writes |-> 0, edits |-> 0]
  /\ item = ctx
  /\ app = AppIdle

KeyNext ==
  /\ \E c \in Metas : SelectMessage(c)
  /\ UNCHANGED << draft, insertion >>
  /\ HostInStep

KeySpec == KeyInit /\ [][KeyNext]_vars

\* the ids of the selected message as makeEmailKey reads them
ThreadId == normStr(ctx.conversationId)
MessageId == normStr(ctx.internetMessageId)
ItemId == normStr(OrElse(ctx.itemId, ctx.id))

\* C11: the key of the selected message is thread::message when the thread id
\* and the message id are both non-empty (as read, that is trimmed), otherwise
\* thread::item when the thread id and the item id are, otherwise the nocid::h
\* fallback, also when fields are missing; message M1 of thread T1 has the
\* key T1::M1 and the stored summary, message M2 has the different key T1::M2
\* and no summary.
C11_KeyByThreadMessageItemOrHash ==
  /\ makeEmailKey(ctx) =
       IF ThreadId # <<>> /\ MessageId # <<>> THEN Text(ThreadId) \o "::" \o Text(MessageId)
       ELSE IF ThreadId # <<>> /\ ItemId # <<>> THEN Text(ThreadId) \o "::" \o Text(ItemId)
       ELSE FallbackKey(ctx)
  /\ (ThreadId = T1 /\ MessageId = M1)
       => makeEmailKey(ctx) = "T1::M1" /\ summaryTxt = Out("T1::M1")
  /\ (ThreadId = T1 /\ MessageId = M2)
       => makeEmailKey(ctx) = "T1::M2" /\ makeEmailKey(ctx) # "T1::M1" /\ summaryTxt = ""

\* message M2 of thread T1, which also has an item id, is selected while the
\* summary of message M1 is stored
C11_Witness ==
  /\ ThreadId = T1 /\ MessageId = M2 /\ ItemId # <<>>
  /\ makeEmailKey(ctx) = "T1::M2"
  /\ StoredSummaryText(localStorage, "T1::M1") # ""
  /\ summaryTxt = ""

\* makeEmailKey takes its fallback path
OnFallback(m) ==
  ~(normStr(m.conversationId) # <<>>
      /\ (normStr(m.internetMessageId) # <<>> \/ normStr(OrElse(m.itemId, m.id)) # <<>>))

SameOtherFields(m1, m2) ==
  /\ m1.conversationId = m2.conversationId
  /\ m1.internetMessageId = m2.internetMessageId
  /\ m1.itemId = m2.itemId
  /\ m1.id = m2.id
  /\ m1.toEmail = m2.toEmail

\* the text without its whitespace, in lower case
NoWhiteLower(s) == toLowerCase(SelectSeq(s, LAMBDA c : c \notin White))

\* the text without the whitespace at its ends, in lower case
TrimmedLower(s) == toLowerCase(TrimEnd(TrimStart(s)))

\* the subjects and the sender addresses differ in letter case and whitespace only
DifferInCaseAndWhitespace(m1, m2) ==
  /\ SameOtherFields(m1, m2)
  /\ NoWhiteLower(m1.subject) = NoWhiteLower(m2.subject)
  /\ NoWhiteLower(m1.fromEmail) = NoWhiteLower(m2.fromEmail)
  /\ NoWhiteLower(m1.from) = NoWhiteLower(m2.from)

\* the subjects differ in letter case, in whitespace at the ends and in the
\* whitespace between the same words; the sender addresses differ in letter
\* case and in whitespace at the ends
DifferInCaseAndSpacing(m1, m2) ==
  /\ SameOtherFields(m1, m2)
  /\ TrimmedLower(CollapseWhite(m1.subject)) = TrimmedLower(CollapseWhite(m2.subject))
  /\ TrimmedLower(m1.fromEmail) = TrimmedLower(m2.fromEmail)
  /\ TrimmedLower(m1.from) = TrimmedLower(m2.from)

\* C12 as stated: on the fallback path, metadata that differs from the
\* selected message's only in letter case or whitespace of the subject or of
\* the sender address has the same key.
C12_SameKeyUpToCaseAndWhitespace ==
  \A m \in Metas :
    (OnFallback(ctx) /\ DifferInCaseAndWhitespace(m, ctx))
      => makeEmailKey(m) = makeEmailKey(ctx)

\* C12: on the fallback path, metadata that differs from the selected
\* message's only in letter case, in whitespace at the ends of the subject or
\* of the sender address, or in the amount of whitespace between the words of
\* the subject has the same key.
C12_SameKeyUpToCaseAndSpacing ==
  \A m \in Metas :
    (OnFallback(ctx) /\ DifferInCaseAndSpacing(m, ctx))
      => makeEmailKey(m) = makeEmailKey(ctx)

\* a message on the fallback path is selected whose subject and sender are
\* written differently, up to case and spacing, in other metadata
C12_Witness ==
  /\ OnFallback(ctx)
  /\ \E m \in Metas :
       /\ DifferInCaseAndSpacing(m, ctx)
       /\ m.subject # ctx.subject
       /\ m.fromEmail # ctx.fromEmail
       /\ ctx.subject # <<>>
       /\ ctx.fromEmail # <<>>

(***************************************************************************)
(* Draft insertion (AiPanel.tsx 1317-1456).                                *)
(***************************************************************************)
MaxInserts == 3
MaxDraftAppends == 1

AI_BLOCK_START == "<!--ICC_AI_START-->"
AI_BLOCK_END == "<!--ICC_AI_END-->"

\* String.prototype.includes, for one piece
Includes(s, piece) == \E i \in 1..Len(s) : s[i] = piece

IndexOf(s, piece) == CHOOSE i \in 1..Len(s) : s[i] = piece /\ \A j \in 1..(i - 1) : s[j] # piece

\* s.split(piece)[0] || ""
SplitFirst(s, piece) == IF Includes(s, piece) THEN SubSeq(s, 1, IndexOf(s, piece) - 1) ELSE s

\* s.split(piece)[1] || "": what stands between the first occurrence of the
\* piece and the next one (or the end), "" without an occurrence
SplitSecond(s, piece) ==
  IF Includes(s, piece)
    THEN SplitFirst(SubSeq(s, IndexOf(s, piece) + 1, Len(s)), piece)
    ELSE <<>>

\* escapeHtml: the generated texts of the model hold none of & < > " '
escapeHtml(t) == t

buildHtmlForInsert ==
  IF htmlOut # "" THEN <<htmlOut>>
  ELSE IF textOut # "" THEN <<"<pre>", escapeHtml(textOut), "</pre>">>
  ELSE <<>>

\* buildSignatureHtml: nothing (mode off, or no signature set) or the block
Signatures == {<<>>, <<"<div class=\"icc-sig\">sig</div>">>}

wrapAiBlock(innerHtml) ==
  <<AI_BLOCK_START, "<div data-icc-ai=\"1\">">> \o innerHtml \o <<"</div>", AI_BLOCK_END>>

\* mutant: the block of an earlier insertion is never recognised
HasAiBlockNever(current) == FALSE

\* line 1348
HasAiBlock(current) == Includes(current, AI_BLOCK_START) /\ Includes(current, AI_BLOCK_END)

\* replaceOrInsertAiBlock.  fails: the functions of the body whose call
\* reports a failure (the call then leaves the draft as it is).
replaceOrInsertAiBlock(d, htmlBlock, fails) ==
  LET current == d.html
      before == SplitFirst(current, AI_BLOCK_START)
      after == SplitSecond(current, AI_BLOCK_END)
  IN IF ~d.body \/ ~({"getAsync", "setAsync"} \subseteq d.functions)
       THEN [ok |-> FALSE, html |-> current, called |-> FALSE]
     ELSE IF "getAsync" \in fails
       THEN [ok |-> FALSE, html |-> current, called |-> TRUE]
     ELSE IF HasAiBlock(current)
       THEN IF "setAsync" \in fails
              THEN [ok |-> FALSE, html |-> current, called |-> TRUE]
              ELSE [ok |-> TRUE, html |-> before \o htmlBlock \o after, called |-> TRUE]
     ELSE IF "prependAsync" \in d.functions
       THEN IF "prependAsync" \in fails
              THEN [ok |-> FALSE, html |-> current, called |-> TRUE]
              ELSE [ok |-> TRUE, html |-> htmlBlock \o current, called |-> TRUE]
     ELSE IF "setAsync" \in fails
       THEN [ok |-> FALSE, html |-> current, called |-> TRUE]
       ELSE [ok |-> TRUE, html |-> htmlBlock \o current, called |-> TRUE]

\* the insertion mechanisms, in the order of insertIntoCurrentDraft
Mechanisms == <<"marker", "cursor", "prepend", "append", "replace">>

\* the function of the body a mechanism of lines 1424-1450 calls
FunctionOf(m) ==
  CASE m = "cursor" -> "setSelectedDataAsync" [] m = "prepend" -> "prependAsync"
    [] m = "append" -> "appendAsync" [] m = "replace" -> "setAsync"

\* the draft after the call of mechanism m with html h succeeded; at is the
\* place of the cursor
Inserted(m, current, h, at) ==
  CASE m = "cursor" -> SubSeq(current, 1, at) \o h \o SubSeq(current, at + 1, Len(current))
    [] m = "prepend" -> h \o current
    [] m = "append" -> current \o h
    [] m = "replace" -> h

\* lines 1424-1452: the first mechanism whose function the body exposes
FirstExposed(d) ==
  IF "setSelectedDataAsync" \in d.functions THEN "cursor"
  ELSE IF "prependAsync" \in d.functions THEN "prepend"
  ELSE IF "appendAsync" \in d.functions THEN "append"
  ELSE IF "setAsync" \in d.functions THEN "replace"
  ELSE "none"

\* insertIntoCurrentDraft with signature sig: the draft, err and the notice
\* afterwards, the mechanisms called in order (tried), those that reported a
\* failure (failed) and those that changed the draft (changed)
insertIntoCurrentDraft(d, sig, fails, at) ==
  LET html == buildHtmlForInsert
      htmlWithSig == html \o sig
      r == replaceOrInsertAiBlock(d, wrapAiBlock(htmlWithSig), fails)
      m == FirstExposed(d)
      first == IF r.called THEN <<"marker">> ELSE <<>>
      nothing == [html |-> d.html, err |-> "", notice |-> "", tried |-> <<>>,
                  failed |-> {}, changed |-> <<>>, content |-> htmlWithSig]
  IN IF ~d.item THEN [nothing EXCEPT !.err = "no item"]
     ELSE IF html = <<>> THEN nothing
     ELSE IF r.ok
       THEN [nothing EXCEPT !.html = r.html, !.notice = "marker", !.tried = first,
                            !.changed = <<"marker">>]
     ELSE IF ~d.body
       THEN [nothing EXCEPT !.err = "no body", !.tried = first,
                            !.failed = {first[i] : i \in 1..Len(first)}]
     ELSE IF m = "none"
       THEN [nothing EXCEPT !.err = "unavailable", !.tried = first,
                            !.failed = {first[i] : i \in 1..Len(first)}]
     ELSE IF FunctionOf(m) \in fails
       THEN [nothing EXCEPT !.err = "failed", !.tried = Append(first, m),
                            !.failed = {first[i] : i \in 1..Len(first)} \cup {m}]
     ELSE [nothing EXCEPT !.html = Inserted(m, d.html, htmlWithSig, at), !.notice = m,
                          !.tried = Append(first, m),
                          !.failed = {first[i] : i \in 1..Len(first)},
                          !.changed = <<m>>]

\* the mechanisms the host offers for draft d
Available(d) ==
  {m \in {"cursor", "prepend", "append", "replace"} : d.body /\ FunctionOf(m) \in d.functions}
    \cup (IF d.body /\ {"getAsync", "setAsync"} \subseteq d.functions THEN {"marker"} ELSE {})

\* the user asks for the current result to be put into the draft
InsertIntoCurrentDraft(sig, fails, at) ==
  LET r == insertIntoCurrentDraft(draft, sig, fails, at)
      byMarker == r.changed = <<"marker">>
      run == IF byMarker /\ ~insertion.otherChange THEN insertion.markerRun + 1
             ELSE insertion.markerRun
  IN /\ tab = "ai"
     /\ insertion.n < MaxInserts
     /\ at <= Len(draft.html)
     /\ err' = r.err
     /\ draft' = [draft EXCEPT !.html = r.html]
     /\ insertion' =
          [n |-> insertion.n + 1, notice |-> r.notice, tried |-> r.tried,
           changed |-> r.changed, failed |-> r.failed, available |-> Available(draft),
           content |-> r.content,
           markerRun |-> run,
           otherChange |-> insertion.otherChange \/ (r.changed # <<>> /\ ~byMarker),
           first |-> IF byMarker /\ run = 1
                       THEN [before |-> SplitFirst(r.html, AI_BLOCK_START),
                             after |-> SubSeq(r.html, IndexOf(r.html, AI_BLOCK_END) + 1,
                                              Len(r.html))]
                       ELSE insertion.first]
     /\ UNCHANGED << recipients, now, fault, localStorage, ctx, tab, emailKey, resultSlots,
                     activeOption, busy, aiHistory, runs, saveTimer, currentEmailKeyRef,
                     autoSummaryState, autoEffect, rawBody, bodyLoad, summaryTxt,
                     attempts, written, lastCall, budget >>

\* the compose drafts of the model: none holds a block of the add-in
Drafts ==
  [item : {TRUE}, body : {TRUE}, functions : SUBSET BodyFunctions,
   html : {<<>>, <<"<p>hello</p>", "<p>regards</p>">>}]
    \cup {[item |-> TRUE, body |-> FALSE, functions |-> {}, html |-> <<>>],
          [item |-> FALSE, body |-> FALSE, functions |-> {}, html |-> <<>>]}

\* AiPanel shows a workspace whose first two slots hold results
DraftInit ==
  /\ now = 1
  /\ fault = NoFault
  /\ localStorage = EmptyStorage
  /\ ctx = [NoCtx EXCEPT !.conversationId = T1, !.internetMessageId = M1]
  /\ tab = "ai"
  /\ emailKey = makeEmailKey(ctx)
  /\ resultSlots = [makeEmptySlots EXCEPT
                      ![1] = [html |-> Out(emailKey), text |-> Out(emailKey)],
                      ![2] = [html |-> "", text |-> Out(emailKey)]]
  /\ activeOption = 0
  /\ busy = FALSE
  /\ err = ""
  /\ aiHistory = <<>>
  /\ runs = [i \in 1..MaxRuns |-> Idle]
  /\ saveTimer = NoTimer
  /\ currentEmailKeyRef = emailKey
  /\ autoSummaryState = FreshAutoState
  /\ autoEffect = NoEffect
  /\ rawBody = ""
  /\ bodyLoad = NoLoad
  /\ summaryTxt = ""
  /\ attempts = [k \in Keys |-> <<>>]
  /\ written = NothingWritten
  /\ lastCall = NoCall
  /\ recipients = InitRecipients(ctx)
  /\ budget = [appends |-> MaxDraftAppends, ticks |-> 0, tabs |-> 0, writes |-> 0, edits |-> 0]
  /\ draft \in Drafts
  /\ insertion = NoInsertion
  /\ item = ctx
  /\ app = AppIdle

\* the calls that report a failure during one invocation: none, one function,
\* or all of them
FailSets == {{}, BodyFunctions} \cup {{f} : f \in BodyFunctions}

DraftNext ==
  /\ \/ \E sig \in Signatures : \E fails \in FailSets : \E at \in 0..1 :
          InsertIntoCurrentDraft(sig, fails, at)
     \/ (\E i \in 0..(NumSlots - 1) : SetActiveOption(i)) /\ UNCHANGED << draft, insertion >>
  /\ HostInStep

DraftSpec == DraftInit /\ [][DraftNext]_vars

\* the number of pieces of s that are the given piece
Count(s, piece) == Cardinality({i \in 1..Len(s) : s[i] = piece})

\* C13: from a draft without a block, after one or more successive successful
\* marker-based insertions (and no other change of the draft) the draft holds
\* exactly one start sentinel and one end sentinel, the block between them
\* holds the content of the last insertion, and the text before and after
\* the block is what it was after the first insertion.
C13_OneBlockWithLastContent ==
  (insertion.markerRun >= 1 /\ ~insertion.otherChange /\ insertion.changed = <<"marker">>)
    => LET html == draft.html
           start == IndexOf(html, AI_BLOCK_START)
           end == IndexOf(html, AI_BLOCK_END)
       IN /\ Count(html, AI_BLOCK_START) = 1
          /\ Count(html, AI_BLOCK_END) = 1
          /\ start < end
          /\ SubSeq(html, start, end) = wrapAiBlock(insertion.content)
          /\ SubSeq(html, 1, start - 1) = insertion.first.before
          /\ SubSeq(html, end + 1, Len(html)) = insertion.first.after

\* the third successive marker-based insertion, into a draft with text, of a
\* content other than the one before
C13_Witness ==
  /\ insertion.markerRun = 3
  /\ ~insertion.otherChange
  /\ insertion.changed = <<"marker">>
  /\ insertion.first.after # <<>>
  /\ insertion.content = <<"<pre>", Out(emailKey), "</pre>">>

\* m1 stands before m2 in the order of the mechanisms
Before(m1, m2) ==
  \E i, j \in 1..Len(Mechanisms) : i < j /\ Mechanisms[i] = m1 /\ Mechanisms[j] = m2

\* C14: an invocation of insertIntoCurrentDraft calls the mechanisms in the
\* order marker, cursor, prepend, append, replace; it stops at the first one
\* that succeeds; a mechanism that is available is skipped only after one
\* before it succeeded, so a mechanism that fails is followed by the next
\* available one; and at most one mechanism changes the draft.
C14_FallsThroughToNextMechanism ==
  (insertion.n > 0 /\ insertion.content # <<>>)
    => /\ \A i, j \in 1..Len(insertion.tried) :
            i < j => Before(insertion.tried[i], insertion.tried[j])
       /\ Len(insertion.changed) <= 1
       /\ \A i \in 1..Len(insertion.tried) :
            insertion.tried[i] \notin insertion.failed => i = Len(insertion.tried)
       /\ \A m \in insertion.available :
            (\A i \in 1..Len(insertion.tried) : insertion.tried[i] # m)
              => \E i \in 1..Len(insertion.tried) :
                   /\ insertion.tried[i] \notin insertion.failed
                   /\ Before(insertion.tried[i], m)

(***************************************************************************)
(* RecipientSpec: the recipient rows while the user reads emails with      *)
(* various headers, the host delivers the metadata of the selected message *)
(* again, the body is read, and the user applies presets, ticks rows,      *)
(* changes roles, adds addresses and leaves and reopens the AI tab.        *)
(***************************************************************************)
MaxEdits == 2
MaxRecipientTabs == 2
\* the rows the user ticks or changes the role of are among the first MaxRow
MaxRow == 2

AddrA == <<"a", "@", "b", ".", "i", "o">>
AddrACaps == <<"A", "@", "b", ".", "i", "o", " ">>
AddrB == <<"b", "@", "b", ".", "i", "o">>
AddrC == <<"<", "c", "@", "b", ".", "i", "o", ">">>
AddrD == <<"d", "@", "b", ".", "i", "o">>
AddrMe == <<"m", "@", "b", ".", "i", "o">>

\* the To and Cc lines the host can deliver: none, or the user and B in To
\* with C and B in Cc
Headers == {[to |-> <<>>, cc |-> <<>>], [to |-> <<AddrMe, AddrB>>, cc |-> <<AddrC, AddrB>>]}

\* the first message with the headers the host can deliver (the sender
\* unknown, a correspondent or the user), the second sent by the user
MailCtxs ==
  { [NoCtx EXCEPT !.conversationId = T1, !.internetMessageId = M1, !.fromEmail = f,
                  !.toRecipients = h.to, !.ccRecipients = h.cc] :
      f \in {<<>>, AddrACaps, AddrMe}, h \in Headers }
    \cup { [NoCtx EXCEPT !.conversationId = T1, !.internetMessageId = M2,
                         !.fromEmail = AddrMe, !.toRecipients = <<AddrB>>] }

Roles == {"to", "cc", "bcc"}

\* what the user types into the add field
Typed == {AddrD, <<"B", "@", "b", ".", "i", "o", ";">>, AddrMe, <<"a", "@", "b">>}

\* loadContextAndLinks delivers the metadata of the selected message again
\* (App.tsx line 139): the key is the same, no effect of emailKey runs
ReloadContext(c) ==
  /\ c # ctx
  /\ makeEmailKey(c) = makeEmailKey(ctx)
  /\ budget.edits > 0
  /\ budget' = [budget EXCEPT !.edits = @ - 1]
  /\ ctx' = c
  /\ UNCHANGED << now, fault, localStorage, tab, aiHistory, summaryTxt, written,
                  lastCall, draft, insertion >>
  /\ UNCHANGED PanelState

\* what a recipient handler leaves alone; a changed preset re-runs the
\* debounced save effect (recipientPreset is one of its dependencies, line 907)
RecipientFrame ==
  /\ budget' = [budget EXCEPT !.edits = @ - 1]
  /\ saveTimer' = IF emailKey # "" /\ recipients'.preset # recipients.preset
                    THEN SaveClosureWith(emailKey, activeOption, resultSlots,
                                         recipients'.preset)
                    ELSE saveTimer
  /\ UNCHANGED << now, fault, localStorage, ctx, tab, emailKey, resultSlots, activeOption,
                  busy, err, aiHistory, runs, currentEmailKeyRef,
                  autoSummaryState, autoEffect, rawBody, bodyLoad, summaryTxt, attempts,
                  written, lastCall, draft, insertion >>

\* applyRecipientPreset (lines 1164-1171): the reply and reply-all buttons
ApplyRecipientPreset(preset) ==
  /\ tab = "ai"
  /\ budget.edits > 0
  /\ recipients' = [rows |-> applyPreset(recipients.rows, preset, ctx), preset |-> preset]
  /\ RecipientFrame

\* onToggleInclude (lines 1678-1681): the checkbox of a row
OnToggleInclude(i, checked) ==
  /\ tab = "ai"
  /\ budget.edits > 0
  /\ i \in 1..Len(recipients.rows)
  /\ recipients' =
       [rows |-> [j \in 1..Len(recipients.rows) |->
                    IF recipients.rows[j].email = recipients.rows[i].email
                      THEN [recipients.rows[j] EXCEPT !.include = checked]
                      ELSE recipients.rows[j]],
        preset |-> "custom"]
  /\ RecipientFrame

\* mutant: the role selector leaves the preset tag as it is
OnChangeRoleKeepingPreset(i, role) ==
  /\ tab = "ai"
  /\ budget.edits > 0
  /\ i \in 1..Len(recipients.rows)
  /\ recipients' =
       [recipients EXCEPT !.rows =
          [j \in 1..Len(recipients.rows) |->
             IF recipients.rows[j].email = recipients.rows[i].email
               THEN [recipients.rows[j] EXCEPT !.role = role]
               ELSE recipients.rows[j]]]
  /\ RecipientFrame

\* onChangeRole (lines 1683-1686): the role selector of a row
OnChangeRole(i, role) ==
  /\ tab = "ai"
  /\ budget.edits > 0
  /\ i \in 1..Len(recipients.rows)
  /\ recipients' =
       [rows |-> [j \in 1..Len(recipients.rows) |->
                    IF recipients.rows[j].email = recipients.rows[i].email
                      THEN [recipients.rows[j] EXCEPT !.role = role]
                      ELSE recipients.rows[j]],
        preset |-> "custom"]
  /\ RecipientFrame

\* addManualRecipient (lines 1688-1708) with addEmail and addRole as typed
AddManualRecipient(addEmail, addRole) ==
  LET e == normalizeEmailCandidate(addEmail)
      at == FindRow(recipients.rows, e)
  IN /\ tab = "ai"
     /\ budget.edits > 0
     /\ recipients' =
          IF e = "" THEN recipients
          ELSE IF at # 0
            THEN [rows |-> [recipients.rows EXCEPT
                              ![at].origins = mergeOrigins(@, {"manual"}),
                              ![at].include = TRUE, ![at].role = addRole],
                  preset |-> "custom"]
          ELSE [rows |-> Append(recipients.rows,
                                [email |-> e, origins |-> {"manual"}, include |-> TRUE,
                                 role |-> addRole]),
                preset |-> "custom"]
     /\ RecipientFrame

\* the Manual button (line 2430) sets the preset tag and nothing else
SelectCustomPreset ==
  /\ tab = "ai"
  /\ budget.edits > 0
  /\ recipients' = [recipients EXCEPT !.preset = "custom"]
  /\ RecipientFrame

RecipientInit ==
  /\ LifeInit
  /\ NoCompose
  /\ budget = [appends |-> 0, ticks |-> 0, tabs |-> MaxRecipientTabs, writes |-> 0,
               edits |-> MaxEdits]

RecipientNext ==
  /\ \/ (\E c \in MailCtxs : SwitchEmail(c)) /\ UNCHANGED << draft, insertion >>
     \/ \E c \in MailCtxs : ReloadContext(c)
     \/ (\E b \in {""} \cup {Body(k) : k \in Keys} : BodyLoaded(b))
          /\ UNCHANGED << draft, insertion >>
     \/ \E preset \in {"reply", "replyAll"} : ApplyRecipientPreset(preset)
     \/ SelectCustomPreset
     \/ \E i \in 1..MaxRow : \E checked \in BOOLEAN : OnToggleInclude(i, checked)
     \/ \E i \in 1..MaxRow : \E role \in {"to", "bcc"} : OnChangeRole(i, role)
     \/ \E addEmail \in Typed : \E addRole \in {"to", "bcc"} :
          AddManualRecipient(addEmail, addRole)
     \/ (\E t \in Tabs : SetTab(t)) /\ UNCHANGED << draft, insertion >>
  /\ HostInStep

RecipientSpec == RecipientInit /\ [][RecipientNext]_vars

\* the normalized address of the sender of the selected message
Sender == normalizeEmailCandidate(ctx.fromEmail)

\* the rows that the preset gives from the rows shown
RowsAfter(preset) == applyPreset(recipients.rows, preset, ctx)

\* the sender's row is included as To
SenderIsTo(rows) ==
  \E i \in 1..Len(rows) : rows[i].email = Sender /\ rows[i].include /\ rows[i].role = "to"

\* the rows other than the sender's are not included
OnlySender(rows) == \A i \in 1..Len(rows) : rows[i].email # Sender => ~rows[i].include

\* of the rows other than the sender's, exactly the To and Cc rows of the
\* header that are not the user's are included, as Cc
HeadersAreCc(rows) ==
  \A i \in 1..Len(rows) :
    rows[i].email # Sender
      => /\ rows[i].include <=> /\ rows[i].origins \cap {"to", "cc"} # {}
                                /\ rows[i].email # myEmailLower
         /\ rows[i].include => rows[i].role = "cc"

\* C15 as stated: reply leaves the sender's row included as To, inserted when
\* the sender has none, and every other row not included; replyAll does the
\* same for the sender and includes as Cc exactly the To and Cc rows other
\* than the user's and the sender's.
C15_PresetIncludesSender ==
  (tab = "ai" /\ Sender # "")
    => /\ SenderIsTo(RowsAfter("reply"))
       /\ OnlySender(RowsAfter("reply"))
       /\ SenderIsTo(RowsAfter("replyAll"))
       /\ HeadersAreCc(RowsAfter("replyAll"))

\* C15: when the sender has a usable address that is not the user's own,
\* reply leaves the sender's row (inserted when missing) included as To and
\* every other row not included, and replyAll adds, as Cc, exactly the To
\* and Cc rows other than the user's and the sender's; when the sender is
\* the user or has no usable address, no row is inserted, reply includes no
\* row and replyAll only those To and Cc rows.
C15_PresetIncludesSenderUnlessSelf ==
  tab = "ai"
    => /\ (Sender # "" /\ Sender # myEmailLower)
            => /\ SenderIsTo(RowsAfter("reply"))
               /\ SenderIsTo(RowsAfter("replyAll"))
       /\ (Sender = "" \/ Sender = myEmailLower)
            => /\ Len(RowsAfter("reply")) = Len(recipients.rows)
               /\ Len(RowsAfter("replyAll")) = Len(recipients.rows)
               /\ \A i \in 1..Len(recipients.rows) :
                    /\ ~RowsAfter("reply")[i].include
                    /\ RowsAfter("replyAll")[i].email = Sender
                         => ~RowsAfter("replyAll")[i].include
       /\ OnlySender(RowsAfter("reply"))
       /\ HeadersAreCc(RowsAfter("replyAll"))

\* the rows shown have no row of the sender, who is a correspondent, and
\* hold a header row found in the body and a row the user added
C15_Witness ==
  /\ tab = "ai"
  /\ Sender # "" /\ Sender # myEmailLower
  /\ FindRow(recipients.rows, Sender) = 0
  /\ \E i, j \in 1..Len(recipients.rows) :
       /\ {"cc", "body"} \subseteq recipients.rows[i].origins
       /\ recipients.rows[j].origins = {"manual"}

\* C16: for the rows shown, the reply preset applied twice gives the rows it
\* gives applied once, and replyAll followed by reply leaves every row other
\* than the sender's not included.
C16_ReplyIdempotentAndResets ==
  tab = "ai"
    => /\ applyPreset(RowsAfter("reply"), "reply", ctx) = RowsAfter("reply")
       /\ OnlySender(applyPreset(RowsAfter("replyAll"), "reply", ctx))

\* the sender has no row yet, so the first reply inserts one, and replyAll
\* includes a header row
C16_Witness ==
  /\ tab = "ai"
  /\ Sender # "" /\ Sender # myEmailLower
  /\ FindRow(recipients.rows, Sender) = 0
  /\ \E i \in 1..Len(RowsAfter("replyAll")) :
       /\ RowsAfter("replyAll")[i].email # Sender
       /\ RowsAfter("replyAll")[i].include

\* no two rows have the same email
UniqueRows(rows) ==
  \A i, j \in 1..Len(rows) : i # j => rows[i].email # rows[j].email

\* every row is still there, with at least the origins it had
OriginsKept(rows, next) ==
  \A i \in 1..Len(rows) :
    \E j \in 1..Len(next) :
      next[j].email = rows[i].email /\ rows[i].origins \subseteq next[j].origins

AutoCallsInFlight(k) ==
  { i \in 1..MaxRuns :
      runs[i].action = "summarize" /\ runs[i].auto = k /\ runs[i].live }

\* at most one such call is in flight for an identity
OneAutoCallInFlight == \A k \in Keys : Cardinality(AutoCallsInFlight(k)) <= 1

\* C18: at any time at most one auto-triggered summarize call is in flight
\* for an identity, the in-flight flag of the identity staying true from the
\* scheduling until the call has completed, also over a cleanup of the effect
\* that happens while the call is running.
C18_OneAutoCallInFlightPerIdentity ==
  /\ OneAutoCallInFlight
  /\ \A k \in Keys : AutoCallsInFlight(k) # {} => autoSummaryState[k].inflight

\* the auto-summary timer callback calls run("summarize") for the key k
AutoCallStarts(k) ==
  \E i \in 1..MaxRuns :
    runs[i].action = "idle" /\ runs'[i].action = "summarize" /\ runs'[i].auto = k

\* the auto-summary effect sets its timer for the key k
AutoScheduled(k) ==
  /\ autoEffect'.timer
  /\ autoEffect'.key = k
  /\ (autoEffect' # autoEffect \/ attempts'[k] # attempts[k])

\* the summaries item holds a summary for k that has not expired
CachedSummary(k) ==
  /\ k \in DOMAIN StoredSummaries(localStorage)
  /\ ~SummaryExpired(StoredSummaries(localStorage)[k], now)

\* C19: an auto-triggered summarize call for K starts only when K is the
\* current identity as the timer fires, and the timer that starts it was set
\* when no unexpired summary was cached for K and the body text was not
\* empty.
C19_AutoCallOnlyForCurrentUncachedWithBody ==
  [][\A k \in Keys :
       /\ AutoCallStarts(k) =>
            /\ currentEmailKeyRef = k
            /\ emailKey = k
            /\ makeEmailKey(ctx) = k
            /\ autoEffect.timer
            /\ autoEffect.key = k
            /\ autoEffect.bodyText # ""
       /\ AutoScheduled(k) =>
            /\ ~CachedSummary(k)
            /\ rawBody' # ""
            /\ autoEffect'.bodyText = rawBody']_vars

\* an auto-triggered call for the current identity is in flight while the
\* other email has a summary cached, for which no call is made
C19_Witness ==
  /\ \E i \in 1..MaxRuns : runs[i].action = "summarize" /\ runs[i].auto = emailKey
  /\ \E k \in Keys \ {emailKey} : CachedSummary(k)
  /\ tab = "ai"

(***************************************************************************)
(* HostSpec: the auto-summary with the host's selection ahead of App.      *)
(* The user selects a message in the host; App learns of it by the         *)
(* ItemChanged event or, where that does not fire, by a poll every 900 ms, *)
(* and until then shows the metadata of the message selected before.       *)
(***************************************************************************)
MaxHostTabs == 2

\* the user selects another message in the host
HostSelect(c) ==
  /\ c # item
  /\ item' = c
  /\ UNCHANGED << now, fault, localStorage, ctx, tab, emailKey, resultSlots, activeOption,
                  busy, err, aiHistory, runs, saveTimer, currentEmailKeyRef,
                  autoSummaryState, autoEffect, rawBody, bodyLoad, summaryTxt,
                  attempts, written, lastCall, budget, draft, insertion, recipients >>

\* loadContextAndLinks reads the metadata of the selected item and sets ctx
ContextLoaded == ShowContext(item, item) /\ UNCHANGED item

HostInit ==
  /\ LifeInit
  /\ NoCompose
  /\ budget = [appends |-> 0, ticks |-> 0, tabs |-> MaxHostTabs, writes |-> 0, edits |-> 0]

HostNext ==
  /\ \/ \E c \in Ctxs : HostSelect(c)
     \/ ContextLoaded
     \/ (\E b \in {""} \cup {Body(k) : k \in Keys} : BodyLoaded(b)) /\ UNCHANGED item
     \/ AutoTimerFire /\ UNCHANGED item
     \/ (\E i \in 1..MaxRuns : \E resp \in Responses(runs[i].emailKey) : RunDone(i, resp))
          /\ UNCHANGED item
     \/ (\E i \in 1..MaxRuns : RunFail(i)) /\ UNCHANGED item
     \/ (\E t \in Tabs : SetTab(t)) /\ UNCHANGED item
  /\ UNCHANGED << draft, insertion, app >>

HostSpec == HostInit /\ [][HostNext]_vars

\* C20: the body text a summarize run for K sends to the generator is the
\* body text of K's email, whatever the order of the identity change, the
\* clearing of the body state, the body load and the auto-summary timer.
C20_SummarizeSendsBodyOfItsEmail ==
  \A i \in 1..MaxRuns :
    runs[i].action = "summarize" => runs[i].bodyText = Body(runs[i].emailKey)

(***************************************************************************)
(* Claims about the workspace: persistence of the last state, restoring    *)
(***************************************************************************)
\* the slots and the active option the restore effect (lines 845-874) would
\* set from the stored record of key k
RestoredFrom(ls, k, t, f) ==
  LET w == loadWorkspace(k, ls, t, f).ret
  IN << RestoreSlots(w), Clamp(w.activeOption) >>

\* C21: every change to the workspace state of K is persisted under K, also
\* when the user switches to another email before the debounce delay has
\* elapsed: when K leaves the display (from when on no timer for K is
\* pending) the stored record of K holds K's last result slots and active
\* option.
C21_LastStatePersistedOnSwitch ==
  [][(tab = "ai" /\ tab' = "ai" /\ emailKey # "" /\ emailKey' # emailKey)
       => /\ saveTimer'.emailKey # emailKey
          /\ RestoredFrom(localStorage', emailKey, now', fault')
               = << resultSlots, activeOption >>]_vars

(***************************************************************************)
(* SharedSpec: the persistent store shared with another view (the dialog   *)
(* beside the task pane).  The other view runs the same store functions on *)
(* the same localStorage; what it writes is told apart by its content.     *)
(***************************************************************************)
MaxSharedWrites == 2
MaxOtherWrites == 2

Other == "other"

\* the other view, having loaded the history, appends an entry and saves
OtherViewSavesHistory(k) ==
  LET h == loadAiHistory(localStorage, now, fault)
      entry == [ts |-> now, emailKey |-> k, conversationId |-> "T1",
                html |-> Other, text |-> Other]
  IN localStorage' = saveAiHistory(Append(h.ret, entry), h.ls, now, fault).ls

\* the other view saves the workspace of k
OtherViewSavesWorkspace(k) ==
  localStorage' =
    saveWorkspace(k, [FreshWorkspace(now) EXCEPT !.htmlOut = Other, !.textOut = Other],
                  localStorage, now, fault).ls

\* the other view stores a summary for k
OtherViewUpsertsSummary(k) ==
  localStorage' = upsertSummary(k, Other, localStorage, now, fault).ls

OtherViewWrites(k) ==
  /\ budget.edits > 0
  /\ budget' = [budget EXCEPT !.edits = @ - 1]
  /\ \/ OtherViewSavesHistory(k)
     \/ OtherViewSavesWorkspace(k)
     \/ OtherViewUpsertsSummary(k)
  /\ UNCHANGED << now, fault, ctx, tab, aiHistory, summaryTxt, written, lastCall >>
  /\ UNCHANGED PanelState

SharedInit ==
  /\ LifeInit
  /\ NoCompose
  /\ budget = [appends |-> 0, ticks |-> 0, tabs |-> 0, writes |-> MaxSharedWrites,
               edits |-> MaxOtherWrites]

SharedNext ==
  /\ \/ \E k \in Keys : OtherViewWrites(k)
     \/ CallSaveAiHistory
     \/ \E k \in Keys : CallSaveWorkspace(k)
     \/ \E k \in Keys : CallUpsertSummary(k)
  /\ UNCHANGED << draft, insertion >>
  /\ HostInStep

SharedSpec == SharedInit /\ [][SharedNext]_vars

\* this view calls saveAiHistory, saveWorkspace or upsertSummary
ThisViewWrites == budget'.writes < budget.writes

\* what the other view wrote is still stored after the step, but for the
\* record that this view's write is to replace
OtherEntriesKept ==
  /\ \A i \in 1..Len(StoredHistory(localStorage)) :
       StoredHistory(localStorage)[i].html = Other
         => \E j \in 1..Len(StoredHistory(localStorage')) :
              StoredHistory(localStorage')[j] = StoredHistory(localStorage)[i]
  /\ \A k \in DOMAIN StoredWorkspaces(localStorage) :
       (StoredWorkspaces(localStorage)[k].htmlOut = Other
          /\ ~(lastCall'.fn = "saveWorkspace" /\ lastCall'.key = k))
         => /\ k \in DOMAIN StoredWorkspaces(localStorage')
            /\ StoredWorkspaces(localStorage')[k] = StoredWorkspaces(localStorage)[k]
  /\ \A k \in DOMAIN StoredSummaries(localStorage) :
       (StoredSummaries(localStorage)[k].text = Other
          /\ ~(lastCall'.fn = "upsertSummary" /\ lastCall'.key = k))
         => /\ k \in DOMAIN StoredSummaries(localStorage')
            /\ StoredSummaries(localStorage')[k] = StoredSummaries(localStorage)[k]

\* C22: a write to a namespace of the store re-reads the namespace just
\* before writing, so that no entry another view wrote since this view
\* loaded is overwritten or dropped by the write.
C22_WritesKeepEntriesOfOtherView ==
  [][ThisViewWrites => OtherEntriesKept]_vars

\* the workspace and summary part of C22 alone
WorkspaceAndSummaryWritesKeepOthers ==
  [][(ThisViewWrites /\ lastCall'.fn # "saveAiHistory") => OtherEntriesKept]_vars

(***************************************************************************)
(* PanelKeySpec: the identity of AiPanel beside the identity of App, for   *)
(* messages with and without ids that differ in subject, sender and        *)
(* recipient.                                                              *)
(***************************************************************************)
MaxPanelKeyTabs == 2

MemoCtxs ==
  { [NoCtx EXCEPT !.conversationId = c, !.internetMessageId = i, !.subject = s,
                  !.fromEmail = f, !.toEmail = r] :
      c \in {<<>>, T1}, i \in {<<>>, M1}, s \in {<<"a">>, <<"b">>},
      f \in {<<"a", "@", "b">>, <<"b", "@", "b">>}, r \in {<<>>, <<"b", "@", "b">>} }

\* App sets ctx to metadata c that differs from the metadata shown in no
\* dependency of AiPanel's emailKey memo but has another key: App's memo
\* (App.tsx line 107) recomputes and its summary load effect runs (lines
\* 109-114); AiPanel renders with the new ctx and the emailKey it had, and
\* none of its effects runs
SenderChanges(c) ==
  LET r == AppLoadSummary(makeEmailKey(c), localStorage, now, fault)
  IN /\ tab = "ai"
     /\ MemoDeps(c) = MemoDeps(ctx)
     /\ makeEmailKey(c) # makeEmailKey(ctx)
     /\ ctx' = c
     /\ localStorage' = r.ls
     /\ summaryTxt' = r.ret
     /\ UNCHANGED << now, fault, tab, aiHistory, written, lastCall, budget >>
     /\ UNCHANGED PanelState

PanelKeyInit ==
  /\ LifeInit
  /\ NoCompose
  /\ budget = [appends |-> 0, ticks |-> 0, tabs |-> MaxPanelKeyTabs, writes |-> 0,
               edits |-> 0]

PanelKeyNext ==
  /\ \/ \E c \in MemoCtxs : SwitchEmail(c)
     \/ \E c \in MemoCtxs : SenderChanges(c)
     \/ \E t \in Tabs : SetTab(t)
  /\ UNCHANGED << draft, insertion >>
  /\ HostInStep

PanelKeySpec == PanelKeyInit /\ [][PanelKeyNext]_vars

\* C23: at every moment the identity AiPanel uses equals the identity of the
\* task pane's summary view, and both are the key of the latest metadata,
\* also after a change of the sender alone on the fallback path.
C23_PanelIdentityIsAppIdentity ==
  tab = "ai" => emailKey = makeEmailKey(ctx)

(***************************************************************************)
(* AutoLiveSpec: the auto-summary with the scheduling of the event loop: a  *)
(* timer that is set fires, a pending generator call settles, and time     *)
(* passes.  Every generator call succeeds with a text, so that an email    *)
(* whose call was started gets its summary.                                *)
(* What the user does (selecting another email) is left free, so the user  *)
(* may stay.                                                               *)
(***************************************************************************)
AutoStep(A) == A /\ UNCHANGED << draft, insertion >> /\ HostInStep

\* the response of a generator call that made html and text for the email with
\* key k
Summary(k) == [html |-> Out(k), text |-> Out(k)]

\* number of clock advances in one behaviour of AutoLiveSpec
MaxLiveTicks == 2

AutoLiveInit ==
  /\ LifeInit
  /\ NoCompose
  /\ budget = [appends |-> 0, ticks |-> MaxLiveTicks, tabs |-> 0, writes |-> 0, edits |-> 0]

AutoLiveNext ==
  \/ AutoStep(\E c \in Ctxs : SwitchEmail(c))
  \/ AutoStep(\E b \in {""} \cup {Body(k) : k \in Keys} : BodyLoaded(b))
  \/ AutoStep(AutoTimerFire)
  \/ AutoStep(\E i \in 1..MaxRuns : RunDone(i, Summary(runs[i].emailKey)))
  \/ AutoStep(\E d \in {AutoThrottleMs} : Tick(d))

AutoLiveSpec ==
  /\ AutoLiveInit
  /\ [][AutoLiveNext]_vars
  /\ WF_vars(AutoStep(AutoTimerFire))
  /\ WF_vars(AutoStep(\E i \in 1..MaxRuns : RunDone(i, Summary(runs[i].emailKey))))
  /\ WF_vars(AutoStep(\E d \in {AutoThrottleMs} : Tick(d)))

\* the user is on the email with key k, its body is in state and it has no
\* cached summary
Arrived(k) ==
  /\ tab = "ai"
  /\ emailKey = k
  /\ ~bodyLoad.pending
  /\ rawBody = Body(k)
  /\ ~CachedSummary(k)

\* an auto-triggered summarize call for k is running
AutoCallStarted(k) == AutoCallsInFlight(k) # {}

\* the user left k, or k has a summary by now
NoCallDue(k) == emailKey # k \/ CachedSummary(k)

\* C24: when the user stays on an email K that has a thread id, a body and no
\* cached summary, an auto-triggered summarize call for K is eventually
\* started, also when K was reached from an email whose body was loaded.
C24_AutoSummaryEventuallyStarts ==
  \A k \in Keys : Arrived(k) ~> (AutoCallStarted(k) \/ NoCallDue(k))

(***************************************************************************)
(* RestoreSpec: the workspace of an email across leaving it and coming     *)
(* back: generated results, the selected result tab, the recipient preset, *)
(* the debounced save and the restore on an identity change.               *)
(***************************************************************************)
MaxRestoreEdits == 1

RestoreInit ==
  /\ LifeInit
  /\ NoCompose
  /\ budget = [appends |-> MaxAppends, ticks |-> 0, tabs |-> 0, writes |-> 0,
               edits |-> MaxRestoreEdits]

RestoreNext ==
  /\ \/ (\E c \in Ctxs : SwitchEmail(c)) /\ UNCHANGED << draft, insertion >>
     \/ RunStart("reply") /\ UNCHANGED << draft, insertion >>
     \/ (\E i \in 1..MaxRuns : RunDone(i, Summary(runs[i].emailKey)))
          /\ UNCHANGED << draft, insertion >>
     \/ SaveTimerFire /\ UNCHANGED << draft, insertion >>
     \/ (\E i \in 0..MaxTab : SetActiveOption(i)) /\ UNCHANGED << draft, insertion >>
     \/ \E preset \in {"reply", "replyAll"} : ApplyRecipientPreset(preset)
  /\ HostInStep

RestoreSpec == RestoreInit /\ [][RestoreNext]_vars

\* what the stored record of key k holds of the workspace: the slots, the
\* active option and the recipient preset
StoredWorkspace(k) ==
  LET w == loadWorkspace(k, localStorage, now, fault).ret
  IN << RestoreSlots(w), Clamp(w.activeOption), w.recipientPreset >>

HasWorkspace(k) == loadWorkspace(k, localStorage, now, fault).hit

\* the debounce delay has elapsed since the last change: no save is pending
DebounceElapsed == ~saveTimer.pending

\* the user comes back to an email that has a stored record
ComesBack == tab = "ai" /\ tab' = "ai" /\ emailKey' # emailKey /\ HasWorkspace(emailKey')

\* once the debounce has elapsed the record of the displayed email holds its
\* slots and active option, and coming back to an email restores them
SlotsAndOptionRestored ==
  [][/\ (tab = "ai" /\ emailKey # "" /\ DebounceElapsed)
          => /\ StoredWorkspace(emailKey)[1] = resultSlots
             /\ StoredWorkspace(emailKey)[2] = activeOption
     /\ ComesBack
          => /\ resultSlots' = StoredWorkspace(emailKey')[1]
             /\ activeOption' = StoredWorkspace(emailKey')[2]]_vars

\* C25: switching from email A to B and back to A, with the debounce delay
\* elapsed before leaving A, restores A's result slots, active option and
\* recipient preset: with the debounce elapsed the stored record of the
\* displayed email holds its state, and coming back restores the record.
C25_SwitchBackRestoresWorkspace ==
  [][/\ (tab = "ai" /\ emailKey # "" /\ DebounceElapsed)
          => StoredWorkspace(emailKey) = << resultSlots, activeOption, recipients.preset >>
     /\ ComesBack
          => << resultSlots', activeOption', recipients'.preset >>
               = StoredWorkspace(emailKey')]_vars

(***************************************************************************)
(* LoadSpec: App's loads of the selected message (App.tsx 134-162), their  *)
(* triggers (init, ItemChanged, the poll and its late repeat), and         *)
(* refreshLinks (238-246) called by the refresh button and by openDialog   *)
(* when the dialog has closed (248-271).  The AI tab is not shown.         *)
(***************************************************************************)
T2 == <<"T", "2">>

\* no item, a message of conversation T1, a message of conversation T2
LoadCtxs ==
  { NoCtx,
    [NoCtx EXCEPT !.conversationId = <<"T", "1">>, !.internetMessageId = <<"M", "1">>],
    [NoCtx EXCEPT !.conversationId = T2, !.internetMessageId = <<"M", "3">>] }

\* what the steps of App's loads leave alone
LoadFrame ==
  UNCHANGED << now, fault, tab, emailKey, resultSlots, activeOption, busy, err, aiHistory,
               runs, saveTimer, currentEmailKeyRef, autoSummaryState, autoEffect, rawBody,
               bodyLoad, attempts, written, lastCall, budget, draft, insertion,
               recipients >>

\* the host selects another item; App is not told yet
SelectItem(c) == HostSelect(c) /\ UNCHANGED app

\* loadContextAndLinks is called: reqId = ++ctxLoadSeqRef.current (line 135)
StartLoad ==
  /\ app.seq < MaxLoads
  /\ app' = [app EXCEPT !.seq = @ + 1, !.loads[app.seq + 1].stage = "ctx"]
  /\ UNCHANGED << ctx, item, localStorage, summaryTxt >>
  /\ LoadFrame

\* setCtx(c) and the summary effect of App it causes when the key changed
SetCtx(c) ==
  IF makeEmailKey(c) # makeEmailKey(ctx)
    THEN ShowContext(c, item)
    ELSE /\ ctx' = c
         /\ UNCHANGED << localStorage, summaryTxt >>
         /\ LoadFrame

\* getSelectedMessageContext of load i resolves with the metadata of the
\* selected item (lines 137-149)
ContextArrives(i) ==
  /\ app.loads[i].stage = "ctx"
  /\ UNCHANGED << item, draft, insertion >>
  /\ IF i # app.seq
       THEN /\ app' = [app EXCEPT !.loads[i].stage = "done"]
            /\ UNCHANGED << ctx, localStorage, summaryTxt >>
            /\ LoadFrame
       ELSE /\ SetCtx(item)
            /\ app' = IF item.conversationId = <<>>
                        THEN [app EXCEPT !.loads[i].stage = "done", !.links = NoLinks,
                                         !.msg = "no item"]
                        ELSE [app EXCEPT !.loads[i] = [stage |-> "links",
                                                       cid |-> Text(item.conversationId)],
                                         !.msg = ""]

\* getLinks of load i resolves or rejects (lines 150-157)
LinksArrive(i, ok) ==
  /\ app.loads[i].stage = "links"
  /\ app' = IF i # app.seq THEN [app EXCEPT !.loads[i].stage = "done"]
            ELSE IF ok THEN [app EXCEPT !.loads[i].stage = "done", !.links = app.loads[i].cid]
            ELSE [app EXCEPT !.loads[i].stage = "done", !.msg = "getLinks failed"]
  /\ UNCHANGED << ctx, item, localStorage, summaryTxt >>
  /\ LoadFrame

\* refreshLinks(), called in a render whose ctx has conversation cid
\* (lines 238-240)
CallRefreshLinks(cid) ==
  IF cid = ""
    THEN [app EXCEPT !.links = NoLinks, !.refreshes = @ + 1]
    ELSE [app EXCEPT !.refresh = [pending |-> TRUE, cid |-> cid], !.refreshes = @ + 1]

\* the user presses the refresh button (line 405)
RefreshClick ==
  /\ ~app.refresh.pending
  /\ app.refreshes < MaxRefreshes
  /\ app' = CallRefreshLinks(Text(ctx.conversationId))
  /\ UNCHANGED << ctx, item, localStorage, summaryTxt >>
  /\ LoadFrame

\* the user opens the dialog for a new or an added link (lines 248-266);
\* openDialog keeps the ctx of the render in which it was called
OpenDialog ==
  /\ ~app.dialog.open
  /\ ctx.conversationId # <<>>
  /\ app.refreshes < MaxRefreshes
  /\ app' = [app EXCEPT !.dialog = [open |-> TRUE, cid |-> Text(ctx.conversationId)]]
  /\ UNCHANGED << ctx, item, localStorage, summaryTxt >>
  /\ LoadFrame

\* the dialog closes: openCockpitDialog resolves and openDialog calls
\* refreshLinks() (line 267)
DialogClosed ==
  /\ app.dialog.open
  /\ ~app.refresh.pending
  /\ app' = [CallRefreshLinks(app.dialog.cid) EXCEPT !.dialog = [open |-> FALSE, cid |-> ""]]
  /\ UNCHANGED << ctx, item, localStorage, summaryTxt >>
  /\ LoadFrame

\* getLinks of refreshLinks resolves or rejects (lines 241-245)
RefreshDone(ok) ==
  /\ app.refresh.pending
  /\ app' = IF ok THEN [app EXCEPT !.refresh = [pending |-> FALSE, cid |-> ""],
                                   !.links = app.refresh.cid]
            ELSE [app EXCEPT !.refresh = [pending |-> FALSE, cid |-> ""],
                             !.msg = "getLinks failed"]
  /\ UNCHANGED << ctx, item, localStorage, summaryTxt >>
  /\ LoadFrame

\* App after its first render and effects: nothing shown, the 'init' load
\* in flight
LoadInit ==
  /\ now = 1
  /\ fault = NoFault
  /\ localStorage = EmptyStorage
  /\ ctx = NoCtx
  /\ tab = "odoo"
  /\ emailKey = ""
  /\ resultSlots = makeEmptySlots
  /\ activeOption = 0
  /\ busy = FALSE
  /\ err = ""
  /\ aiHistory = <<>>
  /\ runs = [i \in 1..MaxRuns |-> Idle]
  /\ saveTimer = NoTimer
  /\ currentEmailKeyRef = ""
  /\ autoSummaryState = FreshAutoState
  /\ autoEffect = NoEffect
  /\ rawBody = ""
  /\ bodyLoad = NoLoad
  /\ summaryTxt = ""
  /\ attempts = [k \in Keys |-> <<>>]
  /\ written = NothingWritten
  /\ lastCall = NoCall
  /\ recipients = NoRecipients
  /\ item \in LoadCtxs
  /\ app = [AppIdle EXCEPT !.seq = 1, !.loads[1].stage = "ctx"]
  /\ NoCompose
  /\ budget = [appends |-> 0, ticks |-> 0, tabs |-> 0, writes |-> 0, edits |-> 0]

LoadNext ==
  \/ \E c \in LoadCtxs : SelectItem(c)
  \/ StartLoad
  \/ \E i \in 1..MaxLoads : ContextArrives(i)
  \/ \E i \in 1..MaxLoads : \E ok \in BOOLEAN : LinksArrive(i, ok)
  \/ RefreshClick
  \/ OpenDialog
  \/ DialogClosed
  \/ \E ok \in BOOLEAN : RefreshDone(ok)

LoadSpec == LoadInit /\ [][LoadNext]_vars

\* load i returns in this step
Returns(i) == app.loads[i].stage \in {"ctx", "links"} /\ app'.loads[i].stage = "done"

\* an older load that returns sets nothing
OlderLoadsDiscarded ==
  \A i \in 1..MaxLoads :
    (Returns(i) /\ i # app.seq) => UNCHANGED << ctx, app.links, app.msg >>

\* ctx is set by the most recently started load only
CtxSetByLatestLoad == ctx' # ctx => app.loads[app.seq].stage = "ctx"

\* nothing that sets the links is in flight
LinksSettled == app.loads[app.seq].stage = "done" /\ ~app.refresh.pending

\* the links shown are those of the conversation of ctx (none when ctx has
\* no conversation or getLinks failed)
LinksOfCtx == app.links \in {NoLinks, Text(ctx.conversationId)}

\* the loads alone: older loads are discarded, and ctx is set by the latest
LatestLoadWins == [][OlderLoadsDiscarded /\ CtxSetByLatestLoad]_vars

\* C26: when context loads overlap only the most recently started load sets
\* ctx, links and message, and the links shown belong to the conversation of
\* the current context once nothing is in flight, also after refreshLinks
\* has returned.
C26_LatestLoadWinsAndLinksOfCtx ==
  [][/\ OlderLoadsDiscarded
     /\ CtxSetByLatestLoad
     /\ LinksSettled' => LinksOfCtx']_vars

(***************************************************************************)
(* Claims about reads of the store and what they leave behind              *)
(***************************************************************************)
Reads == {"loadWorkspace", "loadSummary", "AppLoadSummary"}

\* a read of a record is made in this step
ReadStep == lastCall' # lastCall /\ lastCall'.fn \in Reads

\* the records of the map m, stamped by stamp, that are at most five days old
\* at time t
WithinFiveDays(m, stamp(_), t) == Restrict(m, {k \in DOMAIN m : t - stamp(m[k]) <= FiveDays})

UpdatedAt(w) == w.updatedAt
TsOfRow(row) == row.ts

\* what a read does to the store: loadSummary of AiPanel nothing; loadWorkspace
\* and loadSummary of App remove the records older than five days from their
\* own namespace and nothing else
ReadDropsOnlyExpired ==
  /\ lastCall'.fn = "loadSummary" => localStorage' = localStorage
  /\ lastCall'.fn = "loadWorkspace" =>
       /\ StoredWorkspaces(localStorage')
            = WithinFiveDays(StoredWorkspaces(localStorage), UpdatedAt, now)
       /\ \A n \in StorageItems \ {"ws"} : localStorage'[n] = localStorage[n]
       /\ DOMAIN StoredWorkspaces(localStorage') = DOMAIN StoredWorkspaces(localStorage)
            => localStorage' = localStorage
  /\ lastCall'.fn = "AppLoadSummary" =>
       /\ StoredSummaries(localStorage')
            = WithinFiveDays(StoredSummaries(localStorage), TsOfRow, now)
       /\ \A n \in StorageItems \ {"sum"} : localStorage'[n] = localStorage[n]
       /\ DOMAIN StoredSummaries(localStorage') = DOMAIN StoredSummaries(localStorage)
            => localStorage' = localStorage

\* C27: a read of a record (loadSummary of either view, loadWorkspace)
\* returns the value iff it is not expired and leaves the persistent store
\* unchanged.
C27_ReadLeavesStoreUnchanged ==
  [][ReadStep => /\ SummaryReadInTime'
                 /\ WorkspaceReadInTime'
                 /\ localStorage' = localStorage]_vars

\* C27 as amended: a read returns the value iff it is not expired; AiPanel's
\* loadSummary leaves the store unchanged; loadWorkspace and App's
\* loadSummary remove the expired records of their namespace and change
\* nothing else.
C27_ReadDropsOnlyExpiredRecords ==
  [][ReadStep => /\ SummaryReadInTime'
                 /\ WorkspaceReadInTime'
                 /\ ReadDropsOnlyExpired]_vars

\* C27 witness: App's loadSummary found the summary of the displayed email
\* expired, gave nothing and removed it, while an unexpired workspace record
\* is still stored.
C27_Witness ==
  /\ lastCall.fn = "AppLoadSummary"
  /\ lastCall.key \in DOMAIN written.sum
  /\ lastCall.retText = ""
  /\ lastCall.key \notin DOMAIN StoredSummaries(localStorage)
  /\ StoredWorkspaces(localStorage) # EmptyMap

(***************************************************************************)
(* DigestSpec: the fallback key against the FNV-1a digest as it is         *)
(* published: offset basis 0x811C9DC5, and for each unit an exclusive or   *)
(* followed by a multiplication by the prime 16777619 modulo 2^32.         *)
(***************************************************************************)
\* 16777619 = 256 * 2^16 + 403 and 0x811C9DC5 = 33052 * 2^16 + 40389
FnvPrimeHi == 256
FnvPrimeLo == 403
FnvBasisHi == 33052
FnvBasisLo == 40389

\* a * b modulo 2^32 on words held as two 16-bit halves
MulMod32(a, b) ==
  LET p == a.lo * b.lo
  IN [lo |-> p % 65536,
      hi |-> (((a.hi * b.lo) % 65536) + ((a.lo * b.hi) % 65536) + (p \div 65536)) % 65536]

RECURSIVE StandardFold(_, _)
StandardFold(h, s) ==
  IF s = <<>> \/ h.lo < 0 THEN h
  ELSE StandardFold(MulMod32([hi |-> h.hi, lo |-> Xor(h.lo, charCodeAt(Head(s)))],
                             [hi |-> FnvPrimeHi, lo |-> FnvPrimeLo]),
                    Tail(s))

\* the digest, unsigned, in hexadecimal without leading zeros
StandardDigest(s) ==
  LET h == StandardFold([hi |-> FnvBasisHi, lo |-> FnvBasisLo], s)
  IN IF h.hi = 0 THEN Hex(h.lo) ELSE Hex(h.hi) \o Hex4(h.lo)

Hello == <<"H", "e", "l", "l", "o">>
BobSpaced ==
  <<"B", "o", "b", "@", "E", "x", "a", "m", "p", "l", "e", ".", "c", "o", "m", " ">>
\* "hello|bob@example.com|"
HelloBobJoined ==
  <<"h", "e", "l", "l", "o", "|", "b", "o", "b", "@", "e", "x", "a", "m", "p", "l", "e",
    ".", "c", "o", "m", "|">>

\* subject "Hello", sender "Bob@Example.com " and no recipient
HelloMeta == [NoCtx EXCEPT !.subject = Hello, !.fromEmail = BobSpaced]

\* metadata that takes the fallback branch of makeEmailKey
DigestMetas ==
  { [NoCtx EXCEPT !.conversationId = c, !.subject = s, !.fromEmail = f, !.from = g,
                  !.toEmail = r] :
      c \in {<<>>, <<"T", "1">>},
      s \in {<<>>, Hello, <<"h", "i">>, <<" ", "H", "i", " ", " ", "2">>},
      f \in {<<>>, BobSpaced, <<"a", "@", "b">>},
      g \in {<<>>, <<"Z", "@", "b">>},
      r \in {<<>>, <<"c", "@", "d">>, <<"C", "@", "d", " ">>} }

DigestNext ==
  /\ \E c \in DigestMetas : SelectMessage(c)
  /\ UNCHANGED << draft, insertion >>
  /\ HostInStep

DigestSpec == KeyInit /\ [][DigestNext]_vars

\* the text makeEmailKey hashes for the metadata c
HashedText(c) ==
  JoinBar(toLowerCase(CollapseWhite(normStr(c.subject))),
          normEmail(OrElse(c.fromEmail, c.from)), normEmail(c.toEmail))

\* C28: fnv1a(s) is the standard 32-bit FNV-1a digest over the code units of
\* s, unsigned and in hexadecimal, and the fallback key for subject "Hello",
\* sender "Bob@Example.com " and no recipient is nocid::h followed by the
\* digest of "hello|bob@example.com|", which is aae62b6f.
C28_FallbackKeyIsStandardFnv1a ==
  /\ fnv1a(HashedText(ctx)) = StandardDigest(HashedText(ctx))
  /\ makeEmailKey(ctx) = "nocid::h" \o StandardDigest(HashedText(ctx))
  /\ ctx = HelloMeta =>
       /\ HashedText(ctx) = HelloBobJoined
       /\ makeEmailKey(ctx) = "nocid::h" \o StandardDigest(HelloBobJoined)
       /\ makeEmailKey(ctx) = "nocid::haae62b6f"

\* C28 witness: the message with subject "Hello" and sender "Bob@Example.com "
\* is selected and the summary stored under its key is shown
C28_Witness ==
  /\ ctx = HelloMeta
  /\ makeEmailKey(ctx) = "nocid::haae62b6f"
  /\ summaryTxt = StoredSummaryText(localStorage, "nocid::haae62b6f")

(***************************************************************************)
(* Claims about the scan of the body for addresses                         *)
(***************************************************************************)
\* the body text that was read is scanned in this step (lines 1141-1147)
BodyScanned ==
  /\ tab = "ai" /\ tab' = "ai"
  /\ emailKey' = emailKey
  /\ rawBody' # rawBody
  /\ rawBody' # ""

\* the addresses of the rows
RowEmails(rows) == {rows[i].email : i \in 1..Len(rows)}

\* the addresses found in body text b
FoundIn(b) == {extractEmailsFromText(b)[i] : i \in 1..Len(extractEmailsFromText(b))}

\* the rows that were there stay in place with their include and role
RowsKeepIncludeAndRole(rows, after) ==
  /\ Len(after) >= Len(rows)
  /\ \A i \in 1..Len(rows) :
       /\ after[i].email = rows[i].email
       /\ after[i].include = rows[i].include
       /\ after[i].role = rows[i].role

\* the address e, found in the body, has its row afterwards: a new row with
\* origin body that is not included, or its old row with body among the origins
ScannedInto(e, rows, after) ==
  \E j \in 1..Len(after) :
    /\ after[j].email = e
    /\ IF e \in RowEmails(rows)
         THEN after[j].origins = rows[FindRow(rows, e)].origins \cup {"body"}
         ELSE after[j].origins = {"body"} /\ ~after[j].include

\* C29: a body scan adds each address not yet in the row set as a row with
\* origin body and include=false, adds body to the origins of a row that
\* already exists, and leaves the include and role of every existing row
\* unchanged.
C29_BodyScanAddsAndKeepsEdits ==
  [][BodyScanned =>
       /\ RowsKeepIncludeAndRole(recipients.rows, recipients'.rows)
       /\ \A e \in FoundIn(rawBody') :
            ScannedInto(e, recipients.rows, recipients'.rows)]_vars

\* C29 as amended: the same for every address but the user's own, which gets
\* no row and whose row, if the user added one, is left as it is; rows are
\* added for the addresses found only.
C29_BodyScanAddsOthersAndKeepsEdits ==
  [][BodyScanned =>
       /\ RowsKeepIncludeAndRole(recipients.rows, recipients'.rows)
       /\ \A e \in FoundIn(rawBody') \ {myEmailLower} :
            ScannedInto(e, recipients.rows, recipients'.rows)
       /\ RowEmails(recipients'.rows)
            = RowEmails(recipients.rows) \cup (FoundIn(rawBody') \ {myEmailLower})
       /\ \A i \in 1..Len(recipients.rows) :
            recipients.rows[i].email = myEmailLower
              => recipients'.rows[i] = recipients.rows[i]]_vars

\* C29 witness: the body was scanned after the user had edited rows by hand:
\* a row found in the body keeps its manual origin, its include and a role
\* the scan never gives, beside a row that the scan added.
C29_Witness ==
  /\ rawBody # ""
  /\ recipients.preset = "custom"
  /\ \E i \in 1..Len(recipients.rows) :
       /\ {"manual", "body"} \subseteq recipients.rows[i].origins
       /\ recipients.rows[i].include
       /\ recipients.rows[i].role = "bcc"
  /\ \E i \in 1..Len(recipients.rows) :
       recipients.rows[i].origins = {"body"} /\ ~recipients.rows[i].include

\* ---------------------------------------------------------------------------
\* C30: the custom preset and the tag after a manual edit, under RecipientSpec
\* ---------------------------------------------------------------------------

\* applyPreset leaves the include and role of every row of rows as they are
PresetKeepsIncludeAndRole(rows, preset, c) ==
  /\ Len(applyPreset(rows, preset, c)) = Len(rows)
  /\ RowsKeepIncludeAndRole(rows, applyPreset(rows, preset, c))

\* applyPreset leaves every row of rows in place, not included and with role cc
PresetClearsEveryRow(rows, preset, c) ==
  /\ Len(applyPreset(rows, preset, c)) = Len(rows)
  /\ \A i \in 1..Len(rows) :
       /\ applyPreset(rows, preset, c)[i].email = rows[i].email
       /\ applyPreset(rows, preset, c)[i].origins = rows[i].origins
       /\ ~applyPreset(rows, preset, c)[i].include
       /\ applyPreset(rows, preset, c)[i].role = "cc"

\* the step is the checkbox or the role selector of a row
RowEdited ==
  \/ \E i \in 1..MaxRow : \E checked \in BOOLEAN : OnToggleInclude(i, checked)
  \/ \E i \in 1..MaxRow : \E role \in {"to", "bcc"} : OnChangeRole(i, role)

\* the step is the add button with an address of Accepted typed in
ManualAdded(Accepted) ==
  \E addEmail \in Accepted : \E addRole \in {"to", "bcc"} :
    AddManualRecipient(addEmail, addRole)

\* the typed addresses that normalizeEmailCandidate turns down
Rejected == {t \in Typed : normalizeEmailCandidate(t) = ""}

\* C30: applyPreset(rows, custom) changes the include and role of no row, and
\* every manual edit after a preset run (toggle include, change role, add a
\* manual recipient) sets the preset tag to custom.
C30_CustomKeepsRowsAndEditsSetCustom ==
  [][/\ PresetKeepsIncludeAndRole(recipients.rows, "custom", ctx)
     /\ (RowEdited \/ ManualAdded(Typed)) => recipients'.preset = "custom"]_vars

\* C30 as amended: applyPreset(rows, custom) unchecks every row and gives it
\* role cc; the Manual button never calls it, it sets the tag to custom and
\* leaves the rows alone. A toggle, a role change and the add of an address
\* that is accepted set the tag to custom; the add of an address that is
\* turned down changes neither the rows nor the tag.
C30_CustomButtonKeepsRowsAndEditsSetCustom ==
  [][/\ PresetClearsEveryRow(recipients.rows, "custom", ctx)
     /\ SelectCustomPreset =>
          recipients' = [rows |-> recipients.rows, preset |-> "custom"]
     /\ (RowEdited \/ ManualAdded(Typed \ Rejected)) => recipients'.preset = "custom"
     /\ ManualAdded(Rejected) => recipients' = recipients]_vars

\* C30 witness: after a preset run the user gave an included row the role
\* bcc by hand: the tag is custom, and applyPreset with custom would uncheck
\* the row.
C30_Witness ==
  /\ tab = "ai"
  /\ recipients.preset = "custom"
  /\ \E i \in 1..Len(recipients.rows) :
       /\ recipients.rows[i].include
       /\ recipients.rows[i].role = "bcc"
       /\ ~applyPreset(recipients.rows, "custom", ctx)[i].include

====
